---- MODULE Spec2Model ----
(***************************************************************************)
(* Connection/session lifecycle of the server's transport layer:           *)
(*   - transport::Session (session.cpp): identifier source, move           *)
(*     transfer and the "connection ended" notification on destruction;    *)
(*   - ServiceEntryPointImpl (service_entry_point_impl.cpp): the registry  *)
(*     _sessions, startSession, endAllSessions, getNumberOfConnections,    *)
(*     the dedicated worker loop and the cleanup hook.                     *)
(* The ServiceStateMachine (service_state_machine.h/.cpp) is not part of   *)
(* the sources at hand; its operations are modelled from its documented    *)
(* contract and are marked as such.                                        *)
(***************************************************************************)
EXTENDS Integers, Sequences, FiniteSets, TLC

(***************************************************************************)
(* Bounds of the model.                                                    *)
(***************************************************************************)
\* Session objects that the endpoint specification may create.
MaxEndpoints == 3
\* startSession calls (one driver each) of the registry specification.
MaxSessions == 2
\* endAllSessions calls of the registry specification.
MaxEndAll == 2
\* Cores the host reports to the worker's yield heuristic.
NumCores == 1

(***************************************************************************)
(* Program constants.                                                      *)
(***************************************************************************)
\* Initial value of the AtomicUInt64 sessionIdCounter.
sessionIdCounterInit == 0

\* TransportLayer* values: 0 is nullptr, 1 the transport layer.
NullTL == 0
TransportLayers == {1}
\* HostAndPort values.  EmptyHost is the default-constructed one; MovedOutHost
\* stands for the valid but unspecified value std::move leaves behind.
EmptyHost == ""
MovedOutHost == "unspecified"
RemoteHosts == {"r1", "r2"}
LocalHosts == {"l1"}
\* Session::TagMask values used for sessions and for tag filters.
TagValues == {0, 3}
FilterValues == {0, 2}

Slots == 1 .. MaxEndpoints
Drivers == 1 .. MaxSessions
Enders == 1 .. MaxEndAll

VARIABLES
    \* ---- session.cpp ----
    sessionIdCounter,   \* the process-wide AtomicUInt64
    ep,                 \* Session objects: [st, id, remote, local, tl]
    endCalls,           \* TransportLayer::end(session) calls, per session id
    movedFrom,          \* history: the object was the source of a move
    moveDest,           \* history: the object was the destination of a move
    ctorId,             \* history: id the 3-argument constructor assigned
    ctorTl,             \* history: tl the 3-argument constructor was given
    \* ---- service_entry_point_impl.cpp ----
    sync,               \* _svcCtx->getServiceExecutor() == nullptr
    spc,                \* position of each startSession call
    sid,                \* session()->id() of each driver's session
    tags,               \* session()->getTags() of each driver's session
    state,              \* ServiceStateMachine::state()
    hook,               \* cleanup hook installed
    termReq,            \* terminate() requested, transition still to come
    refs,               \* use count of the shared_ptr<ServiceStateMachine>
    destroyed,          \* the driver object has been destroyed
    wpc,                \* position of the worker thread / executor task
    _sessions,          \* the SSMList, front first
    _sessionsMutex,     \* holder of the mutex
    _nWorkers,          \* AtomicWord<size_t> _nWorkers
    epc,                \* position of each endAllSessions call
    filter,             \* its tags argument
    connsToEnd,         \* its local SSMList
    idx,                \* its position in the terminate loop
    termCalled,         \* history: terminate() was called on the driver
    hookRuns,           \* history: cleanup-hook invocations per driver
    uaf,                \* a destroyed driver has been used
    badErase,           \* erase through an invalidated list iterator
    ssmSync,            \* the synchronous flag each driver was created with
    alive               \* the process and its ServiceEntryPointImpl object

sessVars == <<ep, endCalls, movedFrom, moveDest, ctorId, ctorTl>>
regVars == <<sync, spc, sid, tags, state, hook, termReq, refs, destroyed, wpc,
             _sessions, _sessionsMutex, _nWorkers, epc, filter, connsToEnd,
             idx, termCalled, hookRuns, uaf, badErase, ssmSync, alive>>
VARIABLES
    \* ---- unset_node.cpp ----
    doc,                \* the mutablebson document the element belongs to
    docBefore,          \* history: the document when apply was called
    pathTaken,          \* FieldRef* pathTaken: the parts that led to element
    pathToCreate,       \* FieldRef* pathToCreate: the parts not found
    immutablePaths,     \* const FieldRefSet& immutablePaths
    validateForStorage, \* bool validateForStorage
    siblingsValid,      \* storage_validation::storageValid accepts the siblings
    indexData,          \* const UpdateIndexData*: null, or what it answers
    logBuilder,         \* LogBuilder*: null or present
    unsets,             \* the paths added to the log builder's $unset section
    indexesAffected,    \* bool* indexesAffected
    noop,               \* bool* noop
    upc,                \* position: new, ready, returned, threw, aborted
    thrown              \* the error code of the exception apply left with

unsetVars == <<doc, docBefore, pathTaken, pathToCreate, immutablePaths,
               validateForStorage, siblingsValid, indexData, logBuilder,
               unsets, indexesAffected, noop, upc, thrown>>

VARIABLES
    \* ---- json_schema_parser.cpp ----
    jsonSchema,         \* BSONObj schema, the argument of parse
    parsed,             \* the StatusWithMatchExpression parse returned
    jpc                 \* position: idle, call, returned

parseVars == <<jsonSchema, parsed, jpc>>

vars == <<sessionIdCounter, sessVars, regVars, unsetVars, parseVars>>

Range(s) == {s[i] : i \in 1 .. Len(s)}

(***************************************************************************)
(* transport::Session                                                      *)
(***************************************************************************)
\* Mutation of NextSessionId: fetchAndAdd in place of addAndFetch.
NextSessionIdFetchFirst(c) == c

\* sessionIdCounter.addAndFetch(1): one atomic step that returns the new
\* value.  The word is 64 bits wide; its wrap-around needs 2^64 constructions
\* and lies beyond every bound of this model.
NextSessionId(c) == c + 1

FreeSlot == [st |-> "free", id |-> 0, remote |-> EmptyHost, local |-> EmptyHost,
             tl |-> NullTL]
\* A destroyed object: nothing of it is left to read.
GoneSlot == [FreeSlot EXCEPT !.st = "gone"]

SessionInit ==
    /\ sessionIdCounter = sessionIdCounterInit
    /\ ep = [s \in Slots |-> FreeSlot]
    /\ endCalls = [i \in 0 .. MaxEndpoints |-> 0]
    /\ movedFrom = [s \in Slots |-> FALSE]
    /\ moveDest = [s \in Slots |-> "no"]
    /\ ctorId = [s \in Slots |-> -1]
    /\ ctorTl = [s \in Slots |-> NullTL]

\* What a move hands to its destination: a source attached to a transport
\* layer, or a detached one.
MovedWith(t) == IF t # NullTL THEN "attached" ELSE "detached"

\* Objects come into being in slot order.
NextFree(s) ==
    ep[s].st = "free" /\ (IF s = 1 THEN TRUE ELSE ep[s - 1].st # "free")

\* Session::Session(HostAndPort remote, HostAndPort local, TransportLayer* tl)
SessionCtor(s, r, l, t) ==
    /\ NextFree(s)
    /\ sessionIdCounter' = NextSessionId(sessionIdCounter)
    /\ ep' = [ep EXCEPT ![s] = [st |-> "live", id |-> sessionIdCounter',
                                remote |-> r, local |-> l, tl |-> t]]
    /\ ctorId' = [ctorId EXCEPT ![s] = sessionIdCounter']
    /\ ctorTl' = [ctorTl EXCEPT ![s] = t]
    /\ UNCHANGED <<endCalls, movedFrom, moveDest, regVars,
                   unsetVars, parseVars>>

\* Mutation of SessionMoveCtor: the moved-from object loses its id as well.
SessionMoveCtorZeroesSource(s, o) ==
    /\ NextFree(s)
    /\ ep[o].st = "live"
    /\ ep' = [ep EXCEPT ![s] = [st |-> "live", id |-> ep[o].id,
                                remote |-> ep[o].remote,
                                local |-> ep[o].local, tl |-> ep[o].tl],
                        ![o] = [ep[o] EXCEPT !.remote = MovedOutHost,
                                             !.local = MovedOutHost,
                                             !.tl = NullTL,
                                             !.id = 0]]
    /\ movedFrom' = [movedFrom EXCEPT ![o] = TRUE]
    /\ moveDest' = [moveDest EXCEPT ![s] = MovedWith(ep[o].tl), ![o] = "no"]
    /\ UNCHANGED <<sessionIdCounter, endCalls, ctorId, ctorTl, regVars,
                   unsetVars, parseVars>>

\* Session::Session(Session&& other)
SessionMoveCtor(s, o) ==
    /\ NextFree(s)
    /\ ep[o].st = "live"
    /\ ep' = [ep EXCEPT ![s] = [st |-> "live", id |-> ep[o].id,
                                remote |-> ep[o].remote,
                                local |-> ep[o].local, tl |-> ep[o].tl],
                        ![o] = [ep[o] EXCEPT !.remote = MovedOutHost,
                                             !.local = MovedOutHost,
                                             !.tl = NullTL]]
    /\ movedFrom' = [movedFrom EXCEPT ![o] = TRUE]
    /\ moveDest' = [moveDest EXCEPT ![s] = MovedWith(ep[o].tl), ![o] = "no"]
    /\ UNCHANGED <<sessionIdCounter, endCalls, ctorId, ctorTl, regVars,
                   unsetVars, parseVars>>

\* Session& Session::operator=(Session&& other), other being another object.
\* The two assignments to _tl leave this->_tl null and other._tl as it was.
SessionMoveAssign(s, o) ==
    /\ s # o
    /\ ep[s].st = "live"
    /\ ep[o].st = "live"
    /\ ep' = [ep EXCEPT ![s] = [st |-> "live", id |-> ep[o].id,
                                remote |-> ep[o].remote,
                                local |-> ep[o].local, tl |-> NullTL],
                        ![o] = [ep[o] EXCEPT !.remote = MovedOutHost,
                                             !.local = MovedOutHost]]
    /\ movedFrom' = [movedFrom EXCEPT ![o] = TRUE, ![s] = FALSE]
    /\ moveDest' = [moveDest EXCEPT ![s] = MovedWith(ep[o].tl), ![o] = "no"]
    /\ UNCHANGED <<sessionIdCounter, endCalls, ctorId, ctorTl, regVars,
                   unsetVars, parseVars>>

\* Mutation of SessionDtor: end() is called whatever _tl is.
SessionDtorAlwaysEnds(s) ==
    /\ ep[s].st = "live"
    /\ ep' = [ep EXCEPT ![s] = GoneSlot]
    /\ endCalls' = [endCalls EXCEPT ![ep[s].id] = @ + 1]
    /\ UNCHANGED <<sessionIdCounter, movedFrom, moveDest, ctorId, ctorTl, regVars,
                   unsetVars, parseVars>>

\* Session::~Session()
SessionDtor(s) ==
    /\ ep[s].st = "live"
    /\ ep' = [ep EXCEPT ![s] = GoneSlot]
    /\ endCalls' = IF ep[s].tl # NullTL
                   THEN [endCalls EXCEPT ![ep[s].id] = @ + 1]
                   ELSE endCalls
    /\ UNCHANGED <<sessionIdCounter, movedFrom, moveDest, ctorId, ctorTl, regVars,
                   unsetVars, parseVars>>

(***************************************************************************)
(* ServiceStateMachine: the operations ServiceEntryPointImpl calls.        *)
(***************************************************************************)
\* ServiceStateMachine::create: a driver in its first state, not started.
SSMCreate(st, d) == [st EXCEPT ![d] = "Created"]

\* ServiceStateMachine::setCleanupHook
SSMSetCleanupHook(h, d) == [h EXCEPT ![d] = TRUE]

\* The states one unit of work (runNext, or one scheduled step) may leave
\* the driver in: Ended is terminal, a terminate() request is honoured,
\* otherwise the driver keeps running or ends (close, i/o failure).
SSMStepOutcomes(d) ==
    IF state[d] = "Ended" \/ termReq[d] THEN {"Ended"} ELSE {"Running", "Ended"}

\* What terminate() may do to a driver: nothing when it has Ended; otherwise
\* it drives the transition itself ("now") or only requests it ("later").
SSMTerminateOutcomes(d) ==
    IF state[d] = "Ended" THEN {"noop"} ELSE {"now", "later"}

\* The caller of the operation that made the driver Ended runs the hook.
SSMFiresHook(d, ns) == state[d] # "Ended" /\ ns = "Ended" /\ hook[d]

(***************************************************************************)
(* ServiceEntryPointImpl                                                   *)
(***************************************************************************)
Free == <<"free", 0>>
StartThread(d) == <<"start", d>>
RunThread(d) == <<"run", d>>
EndThread(e) == <<"end", e>>

RECURSIVE BitAnd(_, _)
\* The & of two TagMask values.
BitAnd(a, b) ==
    IF a = 0 \/ b = 0 THEN 0
    ELSE (a % 2) * (b % 2) + 2 * BitAnd(a \div 2, b \div 2)

\* Mutation of SkipSession: a session without tags is kept open by every
\* filter that names a tag.
SkipSessionUntagged(t, f) == BitAnd(t, f) # 0 \/ (t = 0 /\ f # 0)

\* Mutation of SkipSession: equality of the masks in place of intersection.
SkipSessionEqual(t, f) == t = f

\* endAllSessions: "if (ssm->session()->getTags() & tags)".
SkipSession(t, f) == BitAnd(t, f) # 0

\* Mutation of EraseEntry: the hook erases nothing.
EraseNothing(list, d) == list

\* Mutation of EraseEntry: the front entry is erased, whatever ssmIt names.
EraseFront(list, d) == IF list = <<>> THEN list ELSE Tail(list)

\* _sessions.erase(ssmIt), ssmIt naming the node emplaced for driver d.
EraseEntry(list, d) == SelectSeq(list, LAMBDA x : x # d)

\* A shared_ptr copy of each driver of ds.
AddRefs(r, ds) == [d \in Drivers |-> IF d \in ds THEN r[d] + 1 ELSE r[d]]

\* Mutation of SnapshotRefs: the entries of connsToEnd own nothing.
SnapshotRefsNone(r, ds) == r

\* endAllSessions: connsToEnd.emplace_back(ssm) copies the shared_ptr.
SnapshotRefs(r, ds) == AddRefs(r, ds)

\* Mutation of SnapshotUnlock: the lock's scope spans the terminate loop.
SnapshotKeepsLock(e) == EndThread(e)

\* endAllSessions: the scope of lk ends before the terminate loop.
SnapshotUnlock(e) == Free

\* A shared_ptr to each driver of ds goes away.
DropRefs(r, ds) == [d \in Drivers |-> IF d \in ds THEN r[d] - 1 ELSE r[d]]

\* The driver is destroyed with its last owner.
DestroyedAfter(r) ==
    [d \in Drivers |-> destroyed[d] \/ (state[d] # "None" /\ r[d] = 0)]

RegInit ==
    /\ sync \in BOOLEAN
    /\ spc = [d \in Drivers |-> "idle"]
    /\ sid = [d \in Drivers |-> 0]
    /\ tags = [d \in Drivers |-> 0]
    /\ state = [d \in Drivers |-> "None"]
    /\ hook = [d \in Drivers |-> FALSE]
    /\ termReq = [d \in Drivers |-> FALSE]
    /\ refs = [d \in Drivers |-> 0]
    /\ destroyed = [d \in Drivers |-> FALSE]
    /\ wpc = [d \in Drivers |-> "none"]
    /\ _sessions = <<>>
    /\ _sessionsMutex = Free
    /\ _nWorkers = 0
    /\ epc = [e \in Enders |-> "idle"]
    /\ filter = [e \in Enders |-> 0]
    /\ connsToEnd = [e \in Enders |-> <<>>]
    /\ idx = [e \in Enders |-> 0]
    /\ termCalled = [d \in Drivers |-> FALSE]
    /\ hookRuns = [d \in Drivers |-> 0]
    /\ uaf = FALSE
    /\ badErase = FALSE
    /\ ssmSync = [d \in Drivers |-> "unset"]
    /\ alive = "up"

\* The variables the cleanup hook and reference drops write.
hookVars == <<_sessions, _sessionsMutex, refs, destroyed, hookRuns, badErase>>

\* startSession: the flag handed to ServiceStateMachine::create is the sync
\* computed from the service executor.
SyncFlag(s) == s

\* Mutation of StartSessionCreate: the driver is built round the session of
\* the call before, no session of its own being taken over.
StartSessionCreateShared(d, tg) ==
    /\ alive = "up"
    /\ spc[d] = "idle"
    /\ IF d = 1 THEN TRUE ELSE spc[d - 1] # "idle"
    /\ sessionIdCounter' = IF d = 1 THEN NextSessionId(sessionIdCounter)
                           ELSE sessionIdCounter
    /\ sid' = [sid EXCEPT ![d] = sessionIdCounter']
    /\ tags' = [tags EXCEPT ![d] = tg]
    /\ state' = SSMCreate(state, d)
    /\ ssmSync' = [ssmSync EXCEPT ![d] = SyncFlag(sync)]
    /\ refs' = [refs EXCEPT ![d] = 1]
    /\ spc' = [spc EXCEPT ![d] = "lock"]
    /\ UNCHANGED <<parseVars, unsetVars,
                   sessVars, alive, sync, hook, termReq, destroyed,
                   wpc, _sessions,
                   _sessionsMutex, _nWorkers, epc, filter, connsToEnd, idx,
                   termCalled, hookRuns, uaf, badErase>>

\* startSession, up to ServiceStateMachine::create.  The session handed in
\* was constructed by the transport layer, which drew its id and its tags.
StartSessionCreate(d, tg) ==
    /\ alive = "up"
    /\ spc[d] = "idle"
    /\ IF d = 1 THEN TRUE ELSE spc[d - 1] # "idle"
    /\ sessionIdCounter' = NextSessionId(sessionIdCounter)
    /\ sid' = [sid EXCEPT ![d] = sessionIdCounter']
    /\ tags' = [tags EXCEPT ![d] = tg]
    /\ state' = SSMCreate(state, d)
    /\ ssmSync' = [ssmSync EXCEPT ![d] = SyncFlag(sync)]
    /\ refs' = [refs EXCEPT ![d] = 1]
    /\ spc' = [spc EXCEPT ![d] = "lock"]
    /\ UNCHANGED <<parseVars, unsetVars,
                   sessVars, alive, sync, hook, termReq, destroyed,
                   wpc, _sessions,
                   _sessionsMutex, _nWorkers, epc, filter, connsToEnd, idx,
                   termCalled, hookRuns, uaf, badErase>>

\* startSession: stdx::lock_guard lk(_sessionsMutex)
StartSessionLock(d) ==
    /\ spc[d] = "lock"
    /\ _sessionsMutex = Free
    /\ _sessionsMutex' = StartThread(d)
    /\ spc' = [spc EXCEPT ![d] = "emplace"]
    /\ UNCHANGED <<parseVars, unsetVars,
                   sessVars, alive, ssmSync,
                   sessionIdCounter, sync, sid, tags, state, hook, termReq,
                   refs, destroyed, wpc, _sessions, _nWorkers, epc, filter,
                   connsToEnd, idx, termCalled, hookRuns, uaf, badErase>>

\* Mutation of StartSessionEmplace: the driver is told to run as soon as it
\* is inserted, before its hook is installed.
StartSessionEmplaceAndRun(d) ==
    /\ spc[d] = "emplace"
    /\ _sessions' = <<d>> \o _sessions
    /\ refs' = AddRefs(AddRefs(refs, {d}), {d})
    /\ _sessionsMutex' = Free
    /\ wpc' = [wpc EXCEPT ![d] = IF sync THEN "enter" ELSE "sched"]
    /\ spc' = [spc EXCEPT ![d] = "hook"]
    /\ UNCHANGED <<parseVars, unsetVars,
                   sessVars, alive, ssmSync,
                   sessionIdCounter, sync, sid, tags, state, hook, termReq,
                   destroyed, _nWorkers, epc, filter, connsToEnd, idx,
                   termCalled, hookRuns, uaf, badErase>>

\* startSession: ssmIt = _sessions.emplace(_sessions.begin(), ssm); unlock
StartSessionEmplace(d) ==
    /\ spc[d] = "emplace"
    /\ _sessions' = <<d>> \o _sessions
    /\ refs' = AddRefs(refs, {d})
    /\ _sessionsMutex' = Free
    /\ spc' = [spc EXCEPT ![d] = "hook"]
    /\ UNCHANGED <<parseVars, unsetVars,
                   sessVars, alive, ssmSync,
                   sessionIdCounter, sync, sid, tags, state, hook, termReq,
                   destroyed, wpc, _nWorkers, epc, filter, connsToEnd, idx,
                   termCalled, hookRuns, uaf, badErase>>

\* Mutation of StartSessionSetHook: no hook is installed.
StartSessionNoHook(d) ==
    /\ spc[d] = "hook"
    /\ spc' = [spc EXCEPT ![d] = "go"]
    /\ UNCHANGED <<parseVars, unsetVars,
                   sessVars, alive, ssmSync,
                   sessionIdCounter, sync, sid, tags, state, hook,
                   termReq, refs, destroyed, wpc, _sessions, _sessionsMutex,
                   _nWorkers, epc, filter, connsToEnd, idx, termCalled,
                   hookRuns, uaf, badErase>>

\* startSession: ssm->setCleanupHook(...)
StartSessionSetHook(d) ==
    /\ spc[d] = "hook"
    /\ hook' = SSMSetCleanupHook(hook, d)
    /\ uaf' = (uaf \/ destroyed[d])
    /\ spc' = [spc EXCEPT ![d] = "go"]
    /\ UNCHANGED <<parseVars, unsetVars,
                   sessVars, alive, ssmSync,
                   sessionIdCounter, sync, sid, tags, state, termReq, refs,
                   destroyed, wpc, _sessions, _sessionsMutex, _nWorkers, epc,
                   filter, connsToEnd, idx, termCalled, hookRuns, badErase>>

\* Mutation of StartSessionSchedule: startSession returns without
\* scheduleNext().
StartSessionNoSchedule(d) ==
    /\ spc[d] = "go"
    /\ ~sync
    /\ refs' = DropRefs(refs, {d})
    /\ destroyed' = DestroyedAfter(refs')
    /\ spc' = [spc EXCEPT ![d] = "done"]
    /\ UNCHANGED <<parseVars, unsetVars,
                   sessVars, alive, ssmSync,
                   sessionIdCounter, sync, sid, tags, state, hook, termReq,
                   wpc, _sessions, _sessionsMutex, _nWorkers, epc, filter,
                   connsToEnd, idx, termCalled, hookRuns, uaf, badErase>>

\* startSession, !sync: ssm->scheduleNext(); return.  The executor's task
\* takes its reference, the local ssm gives its own up.
StartSessionSchedule(d) ==
    /\ spc[d] = "go"
    /\ ~sync
    /\ wpc' = [wpc EXCEPT ![d] = "sched"]
    /\ uaf' = (uaf \/ destroyed[d])
    /\ refs' = DropRefs(AddRefs(refs, {d}), {d})
    /\ destroyed' = DestroyedAfter(refs')
    /\ spc' = [spc EXCEPT ![d] = "done"]
    /\ UNCHANGED <<parseVars, unsetVars,
                   sessVars, alive, ssmSync,
                   sessionIdCounter, sync, sid, tags, state, hook, termReq,
                   _sessions, _sessionsMutex, _nWorkers, epc, filter,
                   connsToEnd, idx, termCalled, hookRuns, badErase>>

\* Mutation of StartSessionLaunch: the worker is launched whether or not an
\* executor is configured.
StartSessionLaunchAlways(d) ==
    /\ spc[d] = "go"
    /\ wpc' = [wpc EXCEPT ![d] = "enter"]
    /\ spc' = [spc EXCEPT ![d] = "done"]
    /\ UNCHANGED <<parseVars, unsetVars,
                   sessVars, alive, ssmSync,
                   sessionIdCounter, sync, sid, tags, state, hook, termReq,
                   refs, destroyed, _sessions, _sessionsMutex, _nWorkers, epc,
                   filter, connsToEnd, idx, termCalled, hookRuns, uaf,
                   badErase>>

\* startSession, sync: launchServiceWorkerThread, ssm moved into the lambda.
StartSessionLaunch(d) ==
    /\ spc[d] = "go"
    /\ sync
    /\ wpc' = [wpc EXCEPT ![d] = "enter"]
    /\ spc' = [spc EXCEPT ![d] = "done"]
    /\ UNCHANGED <<parseVars, unsetVars,
                   sessVars, alive, ssmSync,
                   sessionIdCounter, sync, sid, tags, state, hook, termReq,
                   refs, destroyed, _sessions, _sessionsMutex, _nWorkers, epc,
                   filter, connsToEnd, idx, termCalled, hookRuns, uaf,
                   badErase>>

\* worker: _nWorkers.addAndFetch(1), the guard, numCores
WorkerEnter(d) ==
    /\ wpc[d] = "enter"
    /\ _nWorkers' = _nWorkers + 1
    /\ wpc' = [wpc EXCEPT ![d] = "loop"]
    /\ UNCHANGED <<parseVars, unsetVars,
                   sessVars, alive, ssmSync,
                   sessionIdCounter, sync, spc, sid, tags, state, hook,
                   termReq, refs, destroyed, _sessions, _sessionsMutex, epc,
                   filter, connsToEnd, idx, termCalled, hookRuns, uaf,
                   badErase>>

\* Mutation of WorkerLoop: the loop goes round without testing state().
WorkerLoopNoTest(d) ==
    /\ wpc[d] = "loop"
    /\ uaf' = (uaf \/ destroyed[d])
    /\ wpc' = [wpc EXCEPT ![d] = "run"]
    /\ UNCHANGED <<parseVars, unsetVars,
                   sessVars, alive, ssmSync,
                   sessionIdCounter, sync, spc, sid, tags, state, hook,
                   termReq, refs, destroyed, _sessions, _sessionsMutex,
                   _nWorkers, epc, filter, connsToEnd, idx, termCalled,
                   hookRuns, badErase>>

\* worker: while (ssm->state() != ServiceStateMachine::State::Ended)
WorkerLoop(d) ==
    /\ wpc[d] = "loop"
    /\ uaf' = (uaf \/ destroyed[d])
    /\ wpc' = [wpc EXCEPT ![d] = IF state[d] = "Ended" THEN "exit" ELSE "run"]
    /\ UNCHANGED <<parseVars, unsetVars,
                   sessVars, alive, ssmSync,
                   sessionIdCounter, sync, spc, sid, tags, state, hook,
                   termReq, refs, destroyed, _sessions, _sessionsMutex,
                   _nWorkers, epc, filter, connsToEnd, idx, termCalled,
                   hookRuns, badErase>>

\* worker: ssm->runNext()
WorkerRunNext(d) ==
    /\ wpc[d] = "run"
    /\ uaf' = (uaf \/ destroyed[d])
    /\ \E ns \in SSMStepOutcomes(d) :
          /\ state' = [state EXCEPT ![d] = ns]
          /\ wpc' = [wpc EXCEPT ![d] = IF SSMFiresHook(d, ns)
                                       THEN "hookLock" ELSE "yield"]
    /\ UNCHANGED <<parseVars, unsetVars,
                   sessVars, alive, ssmSync,
                   sessionIdCounter, sync, spc, sid, tags, hook, termReq,
                   refs, destroyed, _sessions, _sessionsMutex, _nWorkers, epc,
                   filter, connsToEnd, idx, termCalled, hookRuns, badErase>>

\* Mutation of ShouldYield: the worker yields from as many workers as cores.
ShouldYieldAtEqual(n) == n >= NumCores

\* worker: _nWorkers.load() > numCores
ShouldYield(n) == n > NumCores

\* worker: if (_nWorkers.load() > numCores) stdx::this_thread::yield();
\* the load and the test; the thread enters yield() or goes to the loop test.
WorkerYield(d) ==
    /\ wpc[d] = "yield"
    /\ wpc' = [wpc EXCEPT ![d] = IF ShouldYield(_nWorkers) THEN "yielding"
                                 ELSE "loop"]
    /\ UNCHANGED <<parseVars, unsetVars,
                   sessVars, alive, ssmSync,
                   sessionIdCounter, sync, spc, sid, tags, state, hook,
                   termReq, refs, destroyed, _sessions, _sessionsMutex,
                   _nWorkers, epc, filter, connsToEnd, idx, termCalled,
                   hookRuns, uaf, badErase>>

\* worker: stdx::this_thread::yield() returns, the scheduler having run
\* whatever else it chose to.
WorkerResume(d) ==
    /\ wpc[d] = "yielding"
    /\ wpc' = [wpc EXCEPT ![d] = "loop"]
    /\ UNCHANGED <<parseVars, unsetVars,
                   sessVars, alive, ssmSync,
                   sessionIdCounter, sync, spc, sid, tags, state, hook,
                   termReq, refs, destroyed, _sessions, _sessionsMutex,
                   _nWorkers, epc, filter, connsToEnd, idx, termCalled,
                   hookRuns, uaf, badErase>>

\* Mutation of WorkerExit: the worker ends without the guard's decrement.
WorkerExitNoGuard(d) ==
    /\ wpc[d] = "exit"
    /\ sync
    /\ refs' = DropRefs(refs, {d})
    /\ destroyed' = DestroyedAfter(refs')
    /\ wpc' = [wpc EXCEPT ![d] = "done"]
    /\ UNCHANGED <<parseVars, unsetVars,
                   sessVars, alive, ssmSync,
                   sessionIdCounter, sync, spc, sid, tags, state, hook,
                   termReq, _sessions, _sessionsMutex, _nWorkers, epc, filter,
                   connsToEnd, idx, termCalled, hookRuns, uaf, badErase>>

\* worker: the loop is left; the guard runs, the lambda and its ssm go away.
WorkerExit(d) ==
    /\ wpc[d] = "exit"
    /\ sync
    /\ _nWorkers' = _nWorkers - 1
    /\ refs' = DropRefs(refs, {d})
    /\ destroyed' = DestroyedAfter(refs')
    /\ wpc' = [wpc EXCEPT ![d] = "done"]
    /\ UNCHANGED <<parseVars, unsetVars,
                   sessVars, alive, ssmSync,
                   sessionIdCounter, sync, spc, sid, tags, state, hook,
                   termReq, _sessions, _sessionsMutex, epc, filter,
                   connsToEnd, idx, termCalled, hookRuns, uaf, badErase>>

\* The executor runs the task scheduleNext() queued: one unit of work, after
\* which the driver schedules itself again unless it has Ended.
ExecutorStep(d) ==
    /\ wpc[d] = "sched"
    /\ uaf' = (uaf \/ destroyed[d])
    /\ \E ns \in SSMStepOutcomes(d) :
          /\ state' = [state EXCEPT ![d] = ns]
          /\ wpc' = [wpc EXCEPT ![d] = IF SSMFiresHook(d, ns) THEN "hookLock"
                                       ELSE IF ns = "Ended" THEN "exit"
                                       ELSE "sched"]
    /\ UNCHANGED <<parseVars, unsetVars,
                   sessVars, alive, ssmSync,
                   sessionIdCounter, sync, spc, sid, tags, hook, termReq,
                   refs, destroyed, _sessions, _sessionsMutex, _nWorkers, epc,
                   filter, connsToEnd, idx, termCalled, hookRuns, badErase>>

\* The executor drops the task of a driver that has Ended.
ExecutorRelease(d) ==
    /\ wpc[d] = "exit"
    /\ ~sync
    /\ refs' = DropRefs(refs, {d})
    /\ destroyed' = DestroyedAfter(refs')
    /\ wpc' = [wpc EXCEPT ![d] = "done"]
    /\ UNCHANGED <<parseVars, unsetVars,
                   sessVars, alive, ssmSync,
                   sessionIdCounter, sync, spc, sid, tags, state, hook,
                   termReq, _sessions, _sessionsMutex, _nWorkers, epc, filter,
                   connsToEnd, idx, termCalled, hookRuns, uaf, badErase>>

\* Mutation of HookLock: the hook does not wait for the mutex.
HookLockNoWait(t) == _sessionsMutex' = t

\* cleanup hook: stdx::lock_guard lk(_sessionsMutex), by thread t
HookLock(t) ==
    /\ _sessionsMutex = Free
    /\ _sessionsMutex' = t

\* cleanup hook: _sessions.erase(ssmIt); unlock
HookErase(d) ==
    /\ badErase' = (badErase \/ d \notin Range(_sessions))
    /\ _sessions' = EraseEntry(_sessions, d)
    /\ refs' = IF Len(_sessions') < Len(_sessions)
               THEN DropRefs(refs, {_sessions[i] : i \in
                        {j \in 1 .. Len(_sessions) :
                            _sessions[j] \notin Range(_sessions')}})
               ELSE refs
    /\ destroyed' = DestroyedAfter(refs')
    /\ hookRuns' = [hookRuns EXCEPT ![d] = @ + 1]
    /\ _sessionsMutex' = Free

\* The hook of driver d, run in the worker or executor thread.
RunnerHookLock(d) ==
    /\ wpc[d] = "hookLock"
    /\ HookLock(RunThread(d))
    /\ wpc' = [wpc EXCEPT ![d] = "hookErase"]
    /\ UNCHANGED <<parseVars, unsetVars,
                   sessVars, alive, ssmSync,
                   sessionIdCounter, sync, spc, sid, tags, state, hook,
                   termReq, refs, destroyed, _sessions, _nWorkers, epc,
                   filter, connsToEnd, idx, termCalled, hookRuns, uaf,
                   badErase>>

RunnerHookErase(d) ==
    /\ wpc[d] = "hookErase"
    /\ HookErase(d)
    /\ wpc' = [wpc EXCEPT ![d] = IF sync THEN "yield" ELSE "exit"]
    /\ UNCHANGED <<parseVars, unsetVars,
                   sessVars, alive, ssmSync,
                   sessionIdCounter, sync, spc, sid, tags, state, hook,
                   termReq, _nWorkers, epc, filter, connsToEnd, idx,
                   termCalled, uaf>>

\* The connsToEnd of endAllSessions once its loop over _sessions is through.
Snapshot(list, f) == SelectSeq(list, LAMBDA d : ~SkipSession(tags[d], f))

\* endAllSessions(tags): stdx::unique_lock lk(_sessionsMutex)
EndAllLock(e, f) ==
    /\ alive = "up"
    /\ epc[e] = "idle"
    /\ IF e = 1 THEN TRUE ELSE epc[e - 1] # "idle"
    /\ _sessionsMutex = Free
    /\ _sessionsMutex' = EndThread(e)
    /\ filter' = [filter EXCEPT ![e] = f]
    /\ epc' = [epc EXCEPT ![e] = "snap"]
    /\ UNCHANGED <<parseVars, unsetVars,
                   sessVars, alive, ssmSync,
                   sessionIdCounter, sync, spc, sid, tags, state, hook,
                   termReq, refs, destroyed, wpc, _sessions, _nWorkers,
                   connsToEnd, idx, termCalled, hookRuns, uaf, badErase>>

\* endAllSessions: the loop over _sessions that fills connsToEnd; unlock
EndAllSnapshot(e) ==
    /\ epc[e] = "snap"
    /\ connsToEnd' = [connsToEnd EXCEPT ![e] = Snapshot(_sessions, filter[e])]
    /\ refs' = SnapshotRefs(refs, Range(connsToEnd'[e]))
    /\ uaf' = (uaf \/ \E d \in Range(_sessions) : destroyed[d])
    /\ _sessionsMutex' = SnapshotUnlock(e)
    /\ idx' = [idx EXCEPT ![e] = 1]
    /\ epc' = [epc EXCEPT ![e] = "term"]
    /\ UNCHANGED <<parseVars, unsetVars,
                   sessVars, alive, ssmSync,
                   sessionIdCounter, sync, spc, sid, tags, state, hook,
                   termReq, destroyed, wpc, _sessions, _nWorkers, filter,
                   termCalled, hookRuns, badErase>>

\* endAllSessions: ssm->terminate() on the next entry of connsToEnd
EndAllTerminate(e) ==
    /\ epc[e] = "term"
    /\ idx[e] <= Len(connsToEnd[e])
    /\ LET d == connsToEnd[e][idx[e]] IN
          /\ uaf' = (uaf \/ destroyed[d])
          /\ termCalled' = [termCalled EXCEPT ![d] = TRUE]
          /\ \E o \in SSMTerminateOutcomes(d) :
                /\ state' = IF o = "now" THEN [state EXCEPT ![d] = "Ended"]
                            ELSE state
                /\ termReq' = IF o = "later" THEN [termReq EXCEPT ![d] = TRUE]
                              ELSE termReq
                /\ epc' = IF o = "now" /\ SSMFiresHook(d, "Ended")
                          THEN [epc EXCEPT ![e] = "hookLock"]
                          ELSE epc
    /\ idx' = [idx EXCEPT ![e] = @ + 1]
    /\ UNCHANGED <<parseVars, unsetVars,
                   sessVars, alive, ssmSync,
                   sessionIdCounter, sync, spc, sid, tags, hook, refs,
                   destroyed, wpc, _sessions, _sessionsMutex, _nWorkers,
                   filter, connsToEnd, hookRuns, badErase>>

\* The hook of the driver just terminated, run inside terminate().
EndAllHookLock(e) ==
    /\ epc[e] = "hookLock"
    /\ HookLock(EndThread(e))
    /\ epc' = [epc EXCEPT ![e] = "hookErase"]
    /\ UNCHANGED <<parseVars, unsetVars,
                   sessVars, alive, ssmSync,
                   sessionIdCounter, sync, spc, sid, tags, state, hook,
                   termReq, refs, destroyed, wpc, _sessions, _nWorkers,
                   filter, connsToEnd, idx, termCalled, hookRuns, uaf,
                   badErase>>

EndAllHookErase(e) ==
    /\ epc[e] = "hookErase"
    /\ HookErase(connsToEnd[e][idx[e] - 1])
    /\ epc' = [epc EXCEPT ![e] = "term"]
    /\ UNCHANGED <<parseVars, unsetVars,
                   sessVars, alive, ssmSync,
                   sessionIdCounter, sync, spc, sid, tags, state, hook,
                   termReq, wpc, _nWorkers, filter, connsToEnd, idx,
                   termCalled, uaf>>

\* Mutation of EndAllReturn: endAllSessions takes the drivers it terminated
\* out of _sessions itself.
EndAllReturnErases(e) ==
    /\ epc[e] = "term"
    /\ idx[e] > Len(connsToEnd[e])
    /\ _sessionsMutex = Free
    /\ _sessions' = SelectSeq(_sessions, LAMBDA d : d \notin Range(connsToEnd[e]))
    /\ refs' = DropRefs(DropRefs(refs, Range(connsToEnd[e])),
                        Range(_sessions) \cap Range(connsToEnd[e]))
    /\ destroyed' = DestroyedAfter(refs')
    /\ connsToEnd' = [connsToEnd EXCEPT ![e] = <<>>]
    /\ filter' = [filter EXCEPT ![e] = 0]
    /\ idx' = [idx EXCEPT ![e] = 0]
    /\ epc' = [epc EXCEPT ![e] = "done"]
    /\ UNCHANGED <<parseVars, unsetVars,
                   sessVars, alive, ssmSync,
                   sessionIdCounter, sync, spc, sid, tags, state, hook,
                   termReq, wpc, _sessionsMutex, _nWorkers, termCalled,
                   hookRuns, uaf, badErase>>

\* endAllSessions returns: connsToEnd goes out of scope.
EndAllReturn(e) ==
    /\ epc[e] = "term"
    /\ idx[e] > Len(connsToEnd[e])
    /\ refs' = DropRefs(refs, Range(connsToEnd[e]))
    /\ destroyed' = DestroyedAfter(refs')
    /\ connsToEnd' = [connsToEnd EXCEPT ![e] = <<>>]
    /\ filter' = [filter EXCEPT ![e] = 0]
    /\ idx' = [idx EXCEPT ![e] = 0]
    /\ epc' = [epc EXCEPT ![e] = "done"]
    /\ UNCHANGED <<parseVars, unsetVars,
                   sessVars, alive, ssmSync,
                   sessionIdCounter, sync, spc, sid, tags, state, hook,
                   termReq, wpc, _sessions, _sessionsMutex, _nWorkers,
                   termCalled, hookRuns, uaf, badErase>>

\* getNumberOfConnections(): _sessions.size(), read with the mutex held.
getNumberOfConnections == Len(_sessions)

(***************************************************************************)
(* JSONSchemaParser (json_schema_parser.cpp): a JSON Schema, given as a    *)
(* BSON object, is turned into a match expression or an error status.  A   *)
(* BSON object is the sequence of its elements, an element a field name    *)
(* with a value; a value is a string, a number or an object.  Of a match   *)
(* expression the kind of its root node is kept.                           *)
(***************************************************************************)
\* Elements a schema object may have, and schema levels below the top one.
MaxKeywords == 2
MaxNesting == 2

\* JSON Schema keyword constants.
kSchemaMaximumKeyword == "maximum"
kSchemaPropertiesKeyword == "properties"
kSchemaTypeKeyword == "type"

\* The type aliases MatchExpressionParser::parseTypeFromAlias knows.
TypeAliases == {"object", "number"}

StringValue(s) == [t |-> "String", s |-> s, o |-> <<>>]
NumberValue == [t |-> "Number", s |-> "", o |-> <<>>]
ObjectValue(o) == [t |-> "Object", s |-> "", o |-> o]
Element(n, v) == [n |-> n, v |-> v]
\* BSONElement(): the empty element, false as a condition.
EooElement == [n |-> "", v |-> [t |-> "EOO", s |-> "", o |-> <<>>]]

\* The sequences of at most n members of E.
SeqsUpTo(E, n) == UNION {[1 .. k -> E] : k \in 0 .. n}

\* The elements of a nested schema object that nest no schema: a valid and
\* an invalid type, a maximum, and a keyword that is none.
PlainElements ==
    {Element(kSchemaTypeKeyword, StringValue("object")),
     Element(kSchemaTypeKeyword, NumberValue),
     Element(kSchemaMaximumKeyword, NumberValue),
     Element("foo", NumberValue)}

\* The objects with one member of N and at most one member of P, before or
\* after it.
WithOne(N, P) ==
    {<<e>> : e \in N}
    \cup {<<e, f>> : e \in N, f \in P}
    \cup {<<f, e>> : e \in N, f \in P}

RECURSIVE NestedSchemas(_)
\* The schema objects with at most d levels of schemas nested in them: up to
\* MaxKeywords elements that nest nothing, or a properties object naming one
\* property with at most one such element beside it.
NestedSchemas(d) ==
    IF d = 0 THEN SeqsUpTo(PlainElements, MaxKeywords)
    ELSE LET Plain ==
                 PlainElements \cup {Element(kSchemaPropertiesKeyword, NumberValue)}
             Nesting ==
                 {Element(kSchemaPropertiesKeyword, ObjectValue(<<Element("a", v)>>)) :
                     v \in {ObjectValue(s) : s \in NestedSchemas(d - 1)}
                           \cup {NumberValue}}
         IN  SeqsUpTo(Plain, MaxKeywords) \cup WithOne(Nesting, Plain)

\* The elements of the top-level schema that nest no schema.
TopPlainElements ==
    {Element(kSchemaTypeKeyword, StringValue("object")),
     Element(kSchemaTypeKeyword, StringValue("number")),
     Element(kSchemaTypeKeyword, StringValue("bogus")),
     Element(kSchemaTypeKeyword, NumberValue),
     Element(kSchemaMaximumKeyword, NumberValue),
     Element(kSchemaMaximumKeyword, StringValue("x")),
     Element("foo", NumberValue),
     Element(kSchemaPropertiesKeyword, NumberValue)}

\* What the first of two properties may be: no object, a schema without
\* keywords, one with an invalid maximum, one with an unknown keyword.
FirstProperties ==
    {NumberValue, ObjectValue(<<>>),
     ObjectValue(<<Element(kSchemaMaximumKeyword, StringValue("x"))>>),
     ObjectValue(<<Element("foo", NumberValue)>>)}

\* The properties elements of the top-level schema: one property with a
\* schema of up to MaxNesting - 1 further levels, or two properties.
TopPropertiesElements ==
    {Element(kSchemaPropertiesKeyword, ObjectValue(<<Element("a", v)>>)) :
        v \in {ObjectValue(s) : s \in NestedSchemas(MaxNesting - 1)}
              \cup {NumberValue}}
    \cup {Element(kSchemaPropertiesKeyword,
                  ObjectValue(<<Element("a", v), Element("b", w)>>)) :
             v \in FirstProperties,
             w \in {ObjectValue(s) : s \in NestedSchemas(0)} \cup {NumberValue}}

\* The schemas handed to parse that nest no schema, and those that nest
\* schemas in the properties element e.
TopPlainSchemas == SeqsUpTo(TopPlainElements, MaxKeywords)
TopSchemasWith(e) == WithOne({e}, TopPlainElements)

\* Status values and StatusWith values: the error code, the keyword or
\* property the reason names, the root of the expression and, of a type
\* expression, the type.
StatusOK(expr, ty) ==
    [code |-> "OK", reason |-> "", name |-> "", expr |-> expr, ty |-> ty]
StatusError(code, reason, name) ==
    [code |-> code, reason |-> reason, name |-> name, expr |-> "none",
     ty |-> "none"]
isOK(st) == st.code = "OK"

\* makeRestriction(restrictionType, restrictionExpr, statedType)
makeRestriction(restrictionType, restrictionExpr, statedType) ==
    IF statedType # "none"
    THEN LET bothNumeric == restrictionType = "allNumbers" /\ statedType = "number"
             bsonTypesMatch == restrictionType = statedType
         IN  IF bothNumeric \/ bsonTypesMatch THEN restrictionExpr ELSE "AND"
    ELSE "OR"

\* parseType(path, typeElt)
parseType(path, typeElt) ==
    IF typeElt = EooElement THEN StatusOK("none", "none")
    ELSE IF typeElt.v.t # "String"
    THEN StatusError("TypeMismatch", "must be a string", kSchemaTypeKeyword)
    ELSE IF typeElt.v.s \in TypeAliases THEN StatusOK("Type", typeElt.v.s)
    ELSE StatusError("BadValue", "unknown type alias", typeElt.v.s)

\* parseMaximum(path, maximum, typeExpr)
parseMaximum(path, maximum, typeExpr) ==
    IF maximum.v.t # "Number"
    THEN StatusError("TypeMismatch", "must be a number", kSchemaMaximumKeyword)
    ELSE IF path = "" THEN StatusOK("AND", "none")
    ELSE StatusOK(makeRestriction("allNumbers", "LTE", typeExpr), "none")

\* The first of the two errors of the loop of _parse for the elements of
\* schema from the i-th on, or OK with the keyword map filled.
RECURSIVE FillKeywordMap(_, _, _)
FillKeywordMapFirstWins(schema, i, map) ==
    IF i > Len(schema) THEN [st |-> StatusOK("none", "none"), map |-> map]
    ELSE IF schema[i].n \notin DOMAIN map
    THEN [st |-> StatusError("FailedToParse", "Unknown keyword", schema[i].n),
          map |-> map]
    ELSE FillKeywordMap(schema, i + 1,
                        IF map[schema[i].n] # EooElement THEN map
                        ELSE [map EXCEPT ![schema[i].n] = schema[i]])

FillKeywordMap(schema, i, map) ==
    IF i > Len(schema) THEN [st |-> StatusOK("none", "none"), map |-> map]
    ELSE IF schema[i].n \notin DOMAIN map
    THEN [st |-> StatusError("FailedToParse", "Unknown keyword", schema[i].n),
          map |-> map]
    ELSE IF map[schema[i].n] # EooElement
    THEN [st |-> StatusError("FailedToParse", "Duplicate keyword", schema[i].n),
          map |-> map]
    ELSE FillKeywordMap(schema, i + 1, [map EXCEPT ![schema[i].n] = schema[i]])

RECURSIVE _parse(_, _)
RECURSIVE ParseNestedSchemas(_, _)
\* The loop of _parseProperties over propertiesObj from the i-th property
\* on: the first error, or OK.
ParseNestedSchemas(propertiesObj, i) ==
    IF i > Len(propertiesObj) THEN StatusOK("AND", "none")
    ELSE IF propertiesObj[i].v.t # "Object"
    THEN StatusError("TypeMismatch", "Nested schema must be an object",
                     propertiesObj[i].n)
    ELSE LET nestedSchemaMatch == _parse(propertiesObj[i].n, propertiesObj[i].v.o)
         IN  IF ~isOK(nestedSchemaMatch) THEN nestedSchemaMatch
             ELSE ParseNestedSchemas(propertiesObj, i + 1)

\* JSONSchemaParser::_parseProperties(path, propertiesElt, typeExpr)
_parseProperties(path, propertiesElt, typeExpr) ==
    IF propertiesElt.v.t # "Object"
    THEN StatusError("TypeMismatch", "must be an object", kSchemaPropertiesKeyword)
    ELSE LET andExpr == ParseNestedSchemas(propertiesElt.v.o, 1)
         IN  IF ~isOK(andExpr) THEN andExpr
             ELSE IF path = "" THEN StatusOK("AND", "none")
             ELSE StatusOK(makeRestriction("object", "ObjectMatch", typeExpr),
                           "none")

\* JSONSchemaParser::_parse(path, schema)
_parse(path, schema) ==
    LET filled == FillKeywordMap(schema, 1,
                      [k \in {kSchemaTypeKeyword, kSchemaPropertiesKeyword,
                              kSchemaMaximumKeyword} |-> EooElement])
        keywordMap == filled.map
        typeExpr == parseType(path, keywordMap[kSchemaTypeKeyword])
        propertiesExpr ==
            IF keywordMap[kSchemaPropertiesKeyword] # EooElement
            THEN _parseProperties(path, keywordMap[kSchemaPropertiesKeyword],
                                  typeExpr.ty)
            ELSE StatusOK("none", "none")
        maxExpr ==
            IF keywordMap[kSchemaMaximumKeyword] # EooElement
            THEN parseMaximum(path, keywordMap[kSchemaMaximumKeyword], typeExpr.ty)
            ELSE StatusOK("none", "none")
    IN  IF ~isOK(filled.st) THEN filled.st
        ELSE IF ~isOK(typeExpr) THEN typeExpr
        ELSE IF ~isOK(propertiesExpr) THEN propertiesExpr
        ELSE IF ~isOK(maxExpr) THEN maxExpr
        ELSE IF path = "" /\ typeExpr.ty \notin {"none", "object"}
        THEN StatusOK("FALSE", "none")
        ELSE StatusOK("AND", "none")

\* The state of the parser's variables while no schema is parsed.
ParseIdle ==
    /\ jsonSchema = <<>>
    /\ parsed = StatusOK("none", "none")
    /\ jpc = "idle"

(***************************************************************************)
(* UnsetNode (unset_node.cpp): the $unset update operator applied to one   *)
(* element of a mutable document.  The document has an object at its root  *)
(* with the fields of FieldNames; a field holds a value, an object of      *)
(* fields, or an array.  A path is a sequence of parts (FieldRef).         *)
(***************************************************************************)
\* Elements an array of the document may hold.
MaxArrayLen == 2

FieldNames == {"a", "b"}
IndexNames == <<"0", "1", "2", "3">>
IndexParts == {IndexNames[i] : i \in 1 .. MaxArrayLen}
Parts == FieldNames \cup IndexParts

\* The position, from 1, that an array-index part names.
PositionOf(part) == CHOOSE i \in 1 .. MaxArrayLen : IndexNames[i] = part

NoFields == [n \in FieldNames |-> "absent"]
AbsentNode == [k |-> "absent", f |-> NoFields, e |-> <<>>]
ValueNode == [k |-> "val", f |-> NoFields, e |-> <<>>]

\* The values a top-level field may have: none, a scalar, an object whose
\* fields are scalars, an array of scalars.
Nodes ==
    {AbsentNode, ValueNode}
    \cup {[k |-> "obj", f |-> g, e |-> <<>>] : g \in [FieldNames -> {"absent", "val"}]}
    \cup {[k |-> "arr", f |-> NoFields, e |-> [i \in 1 .. n |-> "val"]] :
             n \in 0 .. MaxArrayLen}

Documents == {d \in [FieldNames -> Nodes] : d["b"].k \in {"absent", "val"}}

\* The paths an update may name, and the paths that may be immutable.
UpdatePaths ==
    {<<p>> : p \in Parts} \cup {<<p, q>> : p, q \in Parts}
    \cup {<<"a", "b", "a">>, <<"a", "0", "a">>}
ImmutableCandidates == {<<"a">>, <<"a", "b">>, <<"b">>}
ImmutableSets == {S \in SUBSET ImmutableCandidates : Cardinality(S) <= 2}

\* The element d holds at path p (one or two parts), "absent" if none.
KindAt(d, p) ==
    IF p[1] \notin FieldNames THEN "absent"
    ELSE IF Len(p) = 1 THEN d[p[1]].k
    ELSE IF d[p[1]].k = "obj"
         THEN IF p[2] \in FieldNames THEN d[p[1]].f[p[2]] ELSE "absent"
    ELSE IF d[p[1]].k = "arr"
         THEN IF p[2] \in IndexParts /\ PositionOf(p[2]) <= Len(d[p[1]].e)
              THEN d[p[1]].e[PositionOf(p[2])] ELSE "absent"
    ELSE "absent"

\* The number of leading parts of p that name an element of d: how far the
\* search that precedes apply gets.
FoundParts(d, p) ==
    IF KindAt(d, <<p[1]>>) = "absent" THEN 0
    ELSE IF Len(p) >= 2 /\ KindAt(d, <<p[1], p[2]>>) # "absent" THEN 2
    ELSE 1

\* element.parent().isType(BSONType::Array)
ParentIsArray(d, p) == Len(p) = 2 /\ d[p[1]].k = "arr"

\* element.leftSibling().ok() || element.rightSibling().ok()
HasSibling(d, p) ==
    IF Len(p) = 1 THEN \E n \in FieldNames \ {p[1]} : d[n].k # "absent"
    ELSE IF d[p[1]].k = "arr" THEN Len(d[p[1]].e) >= 2
    ELSE \E n \in FieldNames \ {p[2]} : d[p[1]].f[n] # "absent"

\* element.remove(): the element leaves its parent.
Remove(d, p) ==
    IF Len(p) = 1 THEN [d EXCEPT ![p[1]] = AbsentNode]
    ELSE [d EXCEPT ![p[1]].f[p[2]] = "absent"]

\* element.setValueNull(): the element stays where it is, its value is null.
SetValueNull(d, p) == [d EXCEPT ![p[1]].e[PositionOf(p[2])] = "null"]

\* Mutation of Unset: an element of an array is removed like any other, the
\* elements after it moving up.
UnsetRemovesAlways(d, p) ==
    IF ~ParentIsArray(d, p) THEN Remove(d, p)
    ELSE [d EXCEPT ![p[1]].e =
             [i \in 1 .. Len(d[p[1]].e) - 1 |->
                 IF i < PositionOf(p[2]) THEN d[p[1]].e[i] ELSE d[p[1]].e[i + 1]]]

\* lines 75-81: remove, or null for an element of an array.
Unset(d, p) == IF ~ParentIsArray(d, p) THEN Remove(d, p) ELSE SetValueNull(d, p)

Min(a, b) == IF a < b THEN a ELSE b

\* FieldRef::commonPrefixSize: the number of leading parts p and q share.
CommonPrefixSize(p, q) ==
    Cardinality({n \in 1 .. Min(Len(p), Len(q)) :
                    \A i \in 1 .. n : p[i] = q[i]})

\* Mutation of LeavesImmutable: only an immutable path equal to p counts.
LeavesImmutableUnlessEqual(p, q) == p # q

\* The condition of the uassert of lines 102-108 for immutable path q.
LeavesImmutable(p, q) == CommonPrefixSize(p, q) < Min(Len(p), Len(q))

\* The state of the variables of UnsetNode while no $unset is applied.
UnsetIdle ==
    /\ doc = [n \in FieldNames |-> AbsentNode]
    /\ docBefore = doc
    /\ pathTaken = <<>>
    /\ pathToCreate = <<>>
    /\ immutablePaths = {}
    /\ validateForStorage = FALSE
    /\ siblingsValid = TRUE
    /\ indexData = "null"
    /\ logBuilder = "null"
    /\ unsets = <<>>
    /\ indexesAffected = FALSE
    /\ noop = FALSE
    /\ upc = "idle"
    /\ thrown = "none"

\* An UnsetNode about to be initialised and applied: the document, the path
\* of the update split by the search into the parts found and the parts
\* missing, and the other arguments of apply.
UnsetInit ==
    /\ SessionInit
    /\ RegInit
    /\ sync
    /\ doc \in Documents
    /\ docBefore = doc
    /\ \E p \in UpdatePaths :
          /\ pathTaken = SubSeq(p, 1, FoundParts(doc, p))
          /\ pathToCreate = SubSeq(p, FoundParts(doc, p) + 1, Len(p))
    /\ immutablePaths \in ImmutableSets
    /\ validateForStorage \in BOOLEAN
    /\ siblingsValid \in BOOLEAN
    /\ ~validateForStorage => siblingsValid
    /\ indexData \in {"null", "indexed", "notIndexed"}
    /\ logBuilder \in {"null", "present"}
    /\ unsets = <<>>
    /\ indexesAffected \in BOOLEAN
    /\ noop \in BOOLEAN
    /\ upc = "new"
    /\ thrown = "none"
    /\ ParseIdle

\* UnsetNode::init(modExpr, collator): invariant(modExpr.ok()); Status::OK()
UnsetNodeInit(ok) ==
    /\ upc = "new"
    /\ upc' = IF ok THEN "ready" ELSE "aborted"
    /\ UNCHANGED <<parseVars, sessionIdCounter, sessVars, regVars, doc, docBefore,
                   pathTaken, pathToCreate, immutablePaths, validateForStorage,
                   siblingsValid, indexData, logBuilder, unsets,
                   indexesAffected, noop, thrown>>

\* UnsetNode::apply(element, pathToCreate, pathTaken, ..., indexesAffected,
\* noop), from its call to its return or to the exception it leaves with.
UnsetNodeApply ==
    /\ upc = "ready"
    /\ IF pathToCreate # <<>>
       THEN /\ noop' = TRUE
            /\ indexesAffected' = FALSE
            /\ upc' = "returned"
            /\ UNCHANGED <<doc, unsets, thrown>>
       ELSE /\ noop' = FALSE
            /\ indexesAffected' = (indexData = "indexed")
            /\ doc' = Unset(doc, pathTaken)
            /\ IF validateForStorage /\ HasSibling(doc, pathTaken)
                  /\ ~siblingsValid
               THEN /\ thrown' = "StorageValidation"
                    /\ upc' = "threw"
                    /\ UNCHANGED unsets
               ELSE IF \E q \in immutablePaths : ~LeavesImmutable(pathTaken, q)
               THEN /\ thrown' = "ImmutableField"
                    /\ upc' = "threw"
                    /\ UNCHANGED unsets
               ELSE /\ unsets' = IF logBuilder # "null"
                                 THEN Append(unsets, pathTaken)
                                 ELSE unsets
                    /\ upc' = "returned"
                    /\ UNCHANGED thrown
    /\ UNCHANGED <<parseVars, sessionIdCounter, sessVars, regVars, docBefore,
                   pathTaken,
                   pathToCreate, immutablePaths, validateForStorage,
                   siblingsValid, indexData, logBuilder>>

UnsetNext ==
    \/ \E ok \in BOOLEAN : UnsetNodeInit(ok)
    \/ UnsetNodeApply

UnsetSpec == UnsetInit /\ [][UnsetNext]_vars

\* A schema about to be parsed.
ParseInit ==
    /\ SessionInit
    /\ RegInit
    /\ sync
    /\ UnsetIdle
    /\ \/ jsonSchema \in TopPlainSchemas
       \/ \E e \in TopPropertiesElements : jsonSchema \in TopSchemasWith(e)
    /\ parsed = StatusOK("none", "none")
    /\ jpc = "call"

\* JSONSchemaParser::parse(schema)
JSONSchemaParserParse ==
    /\ jpc = "call"
    /\ parsed' = _parse("", jsonSchema)
    /\ jpc' = "returned"
    /\ UNCHANGED <<sessionIdCounter, sessVars, regVars, unsetVars, jsonSchema>>

ParseNext ==
    \/ JSONSchemaParserParse

ParseSpec == ParseInit /\ [][ParseNext]_vars

Init ==
    /\ SessionInit
    /\ RegInit
    /\ UnsetIdle
    /\ ParseIdle

Next ==
    \/ \E d \in Drivers, tg \in TagValues : StartSessionCreate(d, tg)
    \/ \E d \in Drivers : StartSessionLock(d)
    \/ \E d \in Drivers : StartSessionEmplace(d)
    \/ \E d \in Drivers : StartSessionSetHook(d)
    \/ \E d \in Drivers : StartSessionSchedule(d)
    \/ \E d \in Drivers : StartSessionLaunch(d)
    \/ \E d \in Drivers : WorkerEnter(d)
    \/ \E d \in Drivers : WorkerLoop(d)
    \/ \E d \in Drivers : WorkerRunNext(d)
    \/ \E d \in Drivers : WorkerYield(d)
    \/ \E d \in Drivers : WorkerResume(d)
    \/ \E d \in Drivers : WorkerExit(d)
    \/ \E d \in Drivers : ExecutorStep(d)
    \/ \E d \in Drivers : ExecutorRelease(d)
    \/ \E d \in Drivers : RunnerHookLock(d)
    \/ \E d \in Drivers : RunnerHookErase(d)
    \/ \E e \in Enders, f \in FilterValues : EndAllLock(e, f)
    \/ \E e \in Enders : EndAllSnapshot(e)
    \/ \E e \in Enders : EndAllTerminate(e)
    \/ \E e \in Enders : EndAllHookLock(e)
    \/ \E e \in Enders : EndAllHookErase(e)
    \/ \E e \in Enders : EndAllReturn(e)

Spec == Init /\ [][Next]_vars

(***************************************************************************)
(* The endpoint specification: Session objects on their own.               *)
(***************************************************************************)
SessionNext ==
    \/ \E s \in Slots, r \in RemoteHosts, l \in LocalHosts,
          t \in TransportLayers \cup {NullTL} : SessionCtor(s, r, l, t)
    \/ \E s \in Slots, o \in Slots : SessionMoveCtor(s, o)
    \/ \E s \in Slots, o \in Slots : SessionMoveAssign(s, o)
    \/ \E s \in Slots : SessionDtor(s)

SessionSpec == Init /\ [][SessionNext]_vars

(***************************************************************************)
(* The registry with its fatal path and its destruction.                   *)
(***************************************************************************)
\* The process is gone: no thread of it takes another step.
Halted(pc) == [x \in DOMAIN pc |-> "dead"]

\* Mutation of StartSessionInvariant: the addresses are checked after the
\* driver has been created and registered.
StartSessionInvariantLate(d, ra, la) ==
    /\ alive = "up"
    /\ spc[d] = "idle"
    /\ IF d = 1 THEN TRUE ELSE spc[d - 1] # "idle"
    /\ ~(ra /\ la)
    /\ _sessionsMutex = Free
    /\ state' = SSMCreate(state, d)
    /\ refs' = [refs EXCEPT ![d] = 2]
    /\ _sessions' = <<d>> \o _sessions
    /\ alive' = "aborted"
    /\ spc' = [Halted(spc) EXCEPT ![d] = "fatal"]
    /\ wpc' = Halted(wpc)
    /\ epc' = Halted(epc)
    /\ UNCHANGED <<parseVars, unsetVars,
                   sessVars, ssmSync, sessionIdCounter, sync, sid, tags, hook,
                   termReq, destroyed, _sessionsMutex, _nWorkers, filter,
                   connsToEnd, idx, termCalled, hookRuns, uaf, badErase>>

\* startSession on a session whose remote (ra) or local (la) address has no
\* sockAddr: invariant(remoteAddr && localAddr) fails and the process ends.
StartSessionInvariant(d, ra, la) ==
    /\ alive = "up"
    /\ spc[d] = "idle"
    /\ IF d = 1 THEN TRUE ELSE spc[d - 1] # "idle"
    /\ ~(ra /\ la)
    /\ alive' = "aborted"
    /\ spc' = [Halted(spc) EXCEPT ![d] = "fatal"]
    /\ wpc' = Halted(wpc)
    /\ epc' = Halted(epc)
    /\ UNCHANGED <<parseVars, unsetVars,
                   sessVars, ssmSync, sessionIdCounter, sync, sid, tags, state,
                   hook, termReq, refs, destroyed, _sessions, _sessionsMutex,
                   _nWorkers, filter, connsToEnd, idx, termCalled, hookRuns,
                   uaf, badErase>>

\* The ServiceEntryPointImpl object is destroyed.  The class defines no
\* destructor: its members are destroyed, and _sessions lets go of every
\* driver it holds.  No startSession or endAllSessions call is in progress
\* on the object; worker threads and executor tasks may be.
RegistryDtor ==
    /\ alive = "up"
    /\ \A d \in Drivers : spc[d] \in {"idle", "done"}
    /\ \A e \in Enders : epc[e] \in {"idle", "done"}
    /\ alive' = "destroyed"
    /\ _sessions' = <<>>
    /\ refs' = DropRefs(refs, Range(_sessions))
    /\ destroyed' = DestroyedAfter(refs')
    /\ UNCHANGED <<parseVars, unsetVars,
                   sessVars, ssmSync, sessionIdCounter, sync, spc, sid, tags,
                   state, hook, termReq, wpc, _sessionsMutex, _nWorkers, epc,
                   filter, connsToEnd, idx, termCalled, hookRuns, uaf,
                   badErase>>

\* The step worker or executor thread d is about to take reads or writes a
\* member of the ServiceEntryPointImpl object (_nWorkers, _sessionsMutex,
\* _sessions).
TouchesRegistry(d) ==
    \/ wpc[d] \in {"enter", "yield", "hookLock", "hookErase"}
    \/ sync /\ wpc[d] = "exit"

\* Such a step on the destroyed object is undefined: the thread may go on as
\* if the members were still there (the steps above), or the process dies.
UseAfterRegistryDtor(d) ==
    /\ alive = "destroyed"
    /\ TouchesRegistry(d)
    /\ alive' = "aborted"
    /\ spc' = Halted(spc)
    /\ wpc' = [Halted(wpc) EXCEPT ![d] = "fatal"]
    /\ epc' = Halted(epc)
    /\ UNCHANGED <<parseVars, unsetVars,
                   sessVars, ssmSync, sessionIdCounter, sync, sid, tags, state,
                   hook, termReq, refs, destroyed, _sessions, _sessionsMutex,
                   _nWorkers, filter, connsToEnd, idx, termCalled, hookRuns,
                   uaf, badErase>>

LifeNext ==
    \/ \E d \in Drivers, tg \in TagValues : StartSessionCreate(d, tg)
    \/ \E d \in Drivers, ra, la \in BOOLEAN : StartSessionInvariant(d, ra, la)
    \/ \E d \in Drivers : StartSessionLock(d)
    \/ \E d \in Drivers : StartSessionEmplace(d)
    \/ \E d \in Drivers : StartSessionSetHook(d)
    \/ \E d \in Drivers : StartSessionSchedule(d)
    \/ \E d \in Drivers : StartSessionLaunch(d)
    \/ \E d \in Drivers : WorkerEnter(d)
    \/ \E d \in Drivers : WorkerLoop(d)
    \/ \E d \in Drivers : WorkerRunNext(d)
    \/ \E d \in Drivers : WorkerYield(d)
    \/ \E d \in Drivers : WorkerResume(d)
    \/ \E d \in Drivers : WorkerExit(d)
    \/ \E d \in Drivers : ExecutorStep(d)
    \/ \E d \in Drivers : ExecutorRelease(d)
    \/ \E d \in Drivers : RunnerHookLock(d)
    \/ \E d \in Drivers : RunnerHookErase(d)
    \/ \E e \in Enders, f \in FilterValues : EndAllLock(e, f)
    \/ \E e \in Enders : EndAllSnapshot(e)
    \/ \E e \in Enders : EndAllTerminate(e)
    \/ \E e \in Enders : EndAllHookLock(e)
    \/ \E e \in Enders : EndAllHookErase(e)
    \/ \E e \in Enders : EndAllReturn(e)
    \/ RegistryDtor
    \/ \E d \in Drivers : UseAfterRegistryDtor(d)

LifeSpec == Init /\ [][LifeNext]_vars

(***************************************************************************)
(* Properties of the registry.                                             *)
(***************************************************************************)
NotEnded == {d \in Drivers : state[d] \notin {"None", "Ended"}}
\* startSession has completed the insertion of driver d.
Registered(d) == spc[d] \in {"hook", "go", "done"}
NoDuplicates(list) ==
    \A i, j \in 1 .. Len(list) : list[i] = list[j] => i = j

\* C1 as stated: whenever a caller can take the mutex, the value
\* getNumberOfConnections() returns is the number of drivers that have been
\* created and are not yet Ended.
C1_CountEqualsNotEnded ==
    _sessionsMutex = Free => getNumberOfConnections = Cardinality(NotEnded)

\* C1 as amended: _sessions holds exactly one entry for each driver whose
\* insertion has completed and whose cleanup hook has not yet erased it, and
\* nothing else; a hook has run only for a driver that has Ended.  Hence
\* getNumberOfConnections() counts every registered driver not yet Ended, plus
\* the Ended drivers still awaiting (or never getting) their hook.
C1_CountEqualsRegistered ==
    /\ NoDuplicates(_sessions)
    /\ Range(_sessions) = {d \in Drivers : Registered(d) /\ hookRuns[d] = 0}
    /\ \A d \in Drivers : hookRuns[d] > 0 => state[d] = "Ended"
    /\ getNumberOfConnections =
          Cardinality({d \in Drivers : Registered(d) /\ state[d] # "Ended"})
          + Cardinality({d \in Range(_sessions) : state[d] = "Ended"})

\* One driver has been erased by its hook while another, still running, is
\* counted.
C1_Witness ==
    \E d1, d2 \in Drivers :
        /\ hookRuns[d1] = 1
        /\ state[d2] = "Running"
        /\ d2 \in Range(_sessions)
        /\ _sessionsMutex = Free
        /\ getNumberOfConnections = 1

\* The bits set in a TagMask value, and the intersection of two tag sets.
TagBits(n) == {i \in 0 .. 3 : (n \div (2 ^ i)) % 2 = 1}
TagsIntersect(t, f) == TagBits(t) \cap TagBits(f) # {}

\* Thread e of endAllSessions takes the step.
EnderActs(e) == epc'[e] # epc[e] \/ idx'[e] # idx[e]

C2_Step(e) ==
    LET f == IF epc[e] = "idle" THEN filter'[e] ELSE filter[e] IN
    EnderActs(e) =>
        \* the snapshot holds the registered drivers outside the filter, once
        /\ epc[e] = "snap" =>
              /\ Range(connsToEnd'[e]) =
                    {d \in Range(_sessions) : ~TagsIntersect(tags[d], f)}
              /\ NoDuplicates(connsToEnd'[e])
        \* terminate() is called on the entries of the snapshot, one by one
        /\ \A d \in Drivers :
              termCalled'[d] # termCalled[d] =>
                  /\ epc[e] = "term"
                  /\ idx[e] \in 1 .. Len(connsToEnd[e])
                  /\ d = connsToEnd[e][idx[e]]
                  /\ idx'[e] = idx[e] + 1
        \* and on all of them before the call returns
        /\ epc'[e] = "done" =>
              /\ idx[e] = Len(connsToEnd[e]) + 1
              /\ \A d \in Range(connsToEnd[e]) : termCalled[d]
        \* a driver whose tags intersect the filter is left alone
        /\ \A d \in Drivers :
              TagsIntersect(tags[d], f) =>
                  /\ state'[d] = state[d]
                  /\ termReq'[d] = termReq[d]
                  /\ termCalled'[d] = termCalled[d]
                  /\ d \in Range(_sessions') <=> d \in Range(_sessions)

\* C2: endAllSessions(tagFilter) calls terminate() on exactly the registered
\* drivers whose tags have no bit in common with tagFilter, and no step of it
\* terminates, changes the state of, or removes from the registry a driver
\* whose tags intersect tagFilter.
C2_TerminatesExactlyUnmatched == [][\A e \in Enders : C2_Step(e)]_vars

\* An endAllSessions call has terminated its one snapshot entry while a
\* registered driver whose tags intersect its filter is untouched.
C2_Witness ==
    \E e \in Enders, d1, d2 \in Drivers :
        /\ epc[e] = "term"
        /\ connsToEnd[e] = <<d1>>
        /\ idx[e] = 2
        /\ state[d1] = "Ended"
        /\ TagsIntersect(tags[d2], filter[e])
        /\ d2 \in Range(_sessions)
        /\ state[d2] = "Running"
        /\ ~termCalled[d2]

\* Thread e has called terminate() on driver d, and the call has returned.
TerminateReturned(e, d) ==
    /\ epc[e] = "term"
    /\ \E i \in 1 .. Len(connsToEnd[e]) : i < idx[e] /\ connsToEnd[e][i] = d

\* No thread is inside the cleanup hook of driver d.
HookQuiet(d) ==
    /\ wpc[d] \notin {"hookLock", "hookErase"}
    /\ \A e \in Enders :
          epc[e] \in {"hookLock", "hookErase"} => connsToEnd[e][idx[e] - 1] # d

\* C3: the hook of a driver never runs twice and never erases through an
\* invalidated iterator; and once two threads have both returned from
\* terminate() on the same driver and the driver has Ended with nobody left
\* inside its hook, the hook has run exactly once and the entry is gone.
C3_HookExactlyOnce ==
    /\ ~badErase
    /\ \A d \in Drivers :
          /\ hookRuns[d] <= 1
          /\ (/\ \E e1, e2 \in Enders :
                    e1 # e2 /\ TerminateReturned(e1, d) /\ TerminateReturned(e2, d)
              /\ state[d] = "Ended"
              /\ HookQuiet(d))
             => (hookRuns[d] = 1 /\ d \notin Range(_sessions))

(***************************************************************************)
(* Properties of Session objects (SessionSpec).                            *)
(***************************************************************************)
\* Object s is destroyed in this step.
Discarded(s) == ep[s].st = "live" /\ ep'[s].st = "gone"

\* C4: the destruction of an object that has been the source of a move
\* (move construction or move assignment) calls TransportLayer::end for no
\* session; the destruction of the destination of a move from an attached
\* source calls it, once, for the id moved in.
C4_MovedFromIsSilent ==
    [][\A s \in Slots :
          Discarded(s) =>
              /\ movedFrom[s] => endCalls' = endCalls
              /\ (~movedFrom[s] /\ moveDest[s] = "attached") =>
                    endCalls' = [endCalls EXCEPT ![ep[s].id] = @ + 1]]_vars

\* Ids the 3-argument constructor assigned together with a transport layer.
AttachedIds == {ctorId[s] : s \in {x \in Slots : ctorTl[x] # NullTL}}
NoneLive == \A s \in Slots : ep[s].st # "live"

\* C5: once every Session object has been destroyed, TransportLayer::end has
\* been called exactly once for each id that was assigned at construction with
\* a transport layer.
C5_OneEndPerConnection ==
    NoneLive => \A i \in AttachedIds : endCalls[i] = 1

\* C6: every id the 3-argument constructor assigns is non-zero, and no two
\* objects it constructs are given the same id.
C6_IdsUniqueNonZero ==
    \A s, t \in Slots :
        /\ ctorId[s] # -1 => ctorId[s] # 0
        /\ (ctorId[s] # -1 /\ ctorId[t] # -1 /\ s # t) => ctorId[s] # ctorId[t]

\* Three objects have been constructed by the 3-argument constructor.
C6_Witness ==
    \E s, t, u \in Slots :
        /\ s # t /\ s # u /\ t # u
        /\ ctorId[s] # -1 /\ ctorId[t] # -1 /\ ctorId[u] # -1

(***************************************************************************)
(* Properties of the registry, continued.                                  *)
(***************************************************************************)
\* The entries of _sessions that refer to driver d.
Entries(d) == Cardinality({i \in 1 .. Len(_sessions) : _sessions[i] = d})

\* Driver d has Ended by its own execution, nobody having called
\* terminate() on it, and its hook (if any) has returned.
NaturalEnd(d) == state[d] = "Ended" /\ ~termCalled[d] /\ HookQuiet(d)

\* Thread h, the holder of the mutex, takes the step.
HolderActs(h) ==
    \/ h[1] = "start" /\ spc'[h[2]] # spc[h[2]]
    \/ h[1] = "run" /\ wpc'[h[2]] # wpc[h[2]]
    \/ h[1] = "end" /\ epc'[h[2]] # epc[h[2]]

C7_Step(d) ==
    \* the insertion adds one entry, for d, in front of the others
    /\ (spc[d] = "emplace" /\ spc'[d] # "emplace") =>
          /\ Len(_sessions') = Len(_sessions) + 1
          /\ Entries(d) = 0
          /\ _sessions' = <<d>> \o _sessions
    \* the hook of d takes one entry away, the one of d
    /\ hookRuns'[d] # hookRuns[d] =>
          /\ Len(_sessions') = Len(_sessions) - 1
          /\ Entries(d) = 1
          /\ _sessions' = SelectSeq(_sessions, LAMBDA x : x # d)

\* C7: startSession adds exactly one entry to the registry; the hook of a
\* driver removes exactly that entry; and a driver that has run to its natural
\* completion, with no terminate() call, has no entry left, so that the size
\* is back to what it was before the driver's startSession.
C7_RoundTrip ==
    /\ [](\A d \in Drivers :
             /\ spc[d] \in {"idle", "lock", "emplace"} => Entries(d) = 0
             /\ (Registered(d) /\ state[d] # "Ended") => Entries(d) = 1
             /\ NaturalEnd(d) => (Entries(d) = 0 /\ hookRuns[d] = 1))
    /\ [][\A d \in Drivers : C7_Step(d)]_vars

\* One session alone: started, run to its natural completion, and the
\* registry is empty again.
C7_Witness ==
    /\ spc[1] = "done" /\ spc[2] = "idle"
    /\ NaturalEnd(1)
    /\ wpc[1] = "done"
    /\ getNumberOfConnections = 0

Started == {d \in Drivers : state[d] # "None"}

\* C8: whenever every session started so far has Ended and its cleanup hook
\* has returned, the registry is empty and the sessions' ids differ pairwise.
C8_AllEndedEmpty ==
    (\A d \in Started : state[d] = "Ended" /\ hookRuns[d] = 1 /\ HookQuiet(d)) =>
        /\ getNumberOfConnections = 0
        /\ \A d1, d2 \in Started : d1 # d2 => sid[d1] # sid[d2]

\* All the sessions the bound allows have been started and have ended, one at
\* least by terminate(), and their hooks have returned.
C8_Witness ==
    /\ Started = Drivers
    /\ \A d \in Drivers : state[d] = "Ended" /\ hookRuns[d] = 1 /\ wpc[d] = "done"
    /\ \E d \in Drivers : termCalled[d]
    /\ \E d \in Drivers : ~termCalled[d]

\* C9: no destroyed driver is ever used, and a driver is destroyed only once
\* it has Ended and the registry, startSession, its worker or executor task
\* and every connsToEnd have let go of it.
C9_NoUseAfterDestroy ==
    /\ ~uaf
    /\ \A d \in Drivers :
          /\ refs[d] >= 0
          /\ destroyed[d] =>
                /\ state[d] = "Ended"
                /\ Entries(d) = 0
                /\ spc[d] = "done"
                /\ wpc[d] = "done"
                /\ \A e \in Enders : d \notin Range(connsToEnd[e])

\* endAllSessions is about to call terminate() on a driver that has Ended,
\* erased itself from the registry and lost its worker or executor task:
\* connsToEnd alone keeps it alive.
C9_Witness ==
    \E e \in Enders, d \in Drivers :
        /\ epc[e] = "term"
        /\ idx[e] <= Len(connsToEnd[e])
        /\ connsToEnd[e][idx[e]] = d
        /\ state[d] = "Ended"
        /\ Entries(d) = 0
        /\ wpc[d] = "done"
        /\ refs[d] = 1
        /\ ~destroyed[d]

\* C10: the mutex is held only by a thread inside one of the three critical
\* sections (insert, snapshot, erase), hence never by a thread that is calling
\* terminate(), runNext() or scheduleNext() or that is about to enter the
\* hook; and _sessions and connsToEnd change only in a step of the holder.
C10_LockDiscipline ==
    /\ [](/\ \A d \in Drivers :
                /\ _sessionsMutex = StartThread(d) => spc[d] = "emplace"
                /\ _sessionsMutex = RunThread(d) => wpc[d] = "hookErase"
          /\ \A e \in Enders :
                _sessionsMutex = EndThread(e) => epc[e] \in {"snap", "hookErase"})
    /\ [][/\ _sessions' # _sessions =>
                (_sessionsMutex # Free /\ HolderActs(_sessionsMutex))
          /\ \A e \in Enders :
                (connsToEnd'[e] # connsToEnd[e] /\ connsToEnd'[e] # <<>>) =>
                    _sessionsMutex = EndThread(e)]_vars

\* The hook of a driver runs inside terminate(), called by endAllSessions,
\* and holds the mutex.
C10_Witness ==
    \E e \in Enders : epc[e] = "hookErase" /\ _sessionsMutex = EndThread(e)

\* No call and no thread has a step left to take: every startSession and
\* endAllSessions call made has returned, every worker and executor task has
\* finished.  With no further call such a state lasts forever.
Quiescent ==
    /\ \A d \in Drivers : spc[d] \in {"idle", "done"} /\ wpc[d] \in {"none", "done"}
    /\ \A e \in Enders : epc[e] \in {"idle", "done"}

\* C12: when everything that was started has run to its end and no further
\* session is started, every driver an endAllSessions call has terminated
\* (it was registered at the snapshot and its tags do not intersect the
\* filter) has Ended and is out of the registry, so that the count a poller
\* reads is that of the connections never terminated.
C12_TerminatedDrain ==
    Quiescent =>
        \A d \in Drivers :
            termCalled[d] => (state[d] = "Ended" /\ d \notin Range(_sessions))

\* The registry content that endAllSessions call e is to copy: the entries
\* whose tags have no bit in common with its filter, in list order.
Unmatched(list, e) ==
    SelectSeq(list, LAMBDA d : ~TagsIntersect(tags[d], filter[e]))

C13_Step(e) ==
    \* from lock to unlock the registry stands still for call e
    /\ epc[e] = "snap" =>
          /\ _sessionsMutex = EndThread(e)
          /\ _sessions' = _sessions
    \* the snapshot is the registry of that instant, filtered: a driver
    \* erased before is not in it, nor one that is not yet inserted
    /\ (epc[e] = "snap" /\ epc'[e] # "snap") =>
          /\ connsToEnd'[e] = Unmatched(_sessions, e)
          /\ \A d \in Drivers :
                (hookRuns[d] > 0 \/ spc[d] \in {"idle", "lock", "emplace"})
                    => d \notin Range(connsToEnd'[e])
    \* once taken, the snapshot stays as it is until the call returns
    /\ epc[e] \in {"term", "hookLock", "hookErase"} =>
          (connsToEnd'[e] = connsToEnd[e] \/ epc'[e] = "done")
    \* a driver inserted later joins no snapshot already taken, and call e
    \* terminates nothing but its snapshot
    /\ \A d \in Drivers :
          /\ Entries(d) < Entries(d)' =>
                (d \notin Range(connsToEnd[e]) /\ connsToEnd'[e] = connsToEnd[e])
          /\ (EnderActs(e) /\ (termCalled'[d] # termCalled[d]
                                \/ termReq'[d] # termReq[d]
                                \/ state'[d] # state[d]))
                => d \in Range(connsToEnd[e])

\* C13: the snapshot of endAllSessions is the content of the registry at one
\* instant, the one at which the call holds the mutex, filtered by the tags:
\* no insertion or erase falls between its lock and its unlock, a driver
\* inserted after the snapshot is not terminated by that call, and a driver
\* whose hook erased it before the snapshot is not in it.
C13_SnapshotLinearized == [][\A e \in Enders : C13_Step(e)]_vars

\* An endAllSessions call has terminated all of its snapshot while a driver
\* it would not have skipped, inserted after the snapshot, is registered and
\* untouched.
C13_Witness ==
    \E e \in Enders, d1, d2 \in Drivers :
        /\ epc[e] = "term"
        /\ connsToEnd[e] = <<d1>>
        /\ idx[e] = 2
        /\ d2 \in Range(_sessions)
        /\ ~TagsIntersect(tags[d2], filter[e])
        /\ ~termCalled[d2]
        /\ state[d2] = "Running"

\* Driver d has been told to run: scheduleNext() was called on it or its
\* worker thread was launched.
ToldToRun(d) == wpc[d] # "none"

\* C14 as stated: every driver that is not Ended has exactly one entry in
\* _sessions, and every entry is that of a driver that has been told to run.
C14_OneEntryAndToldToRun ==
    /\ \A d \in NotEnded : Entries(d) = 1
    /\ \A d \in Range(_sessions) : ToldToRun(d)

\* C14 as amended: no driver has more than one entry; a driver that is not
\* Ended has exactly one entry from its insertion on and none before it; an
\* entry whose startSession call has returned is that of a driver that has
\* been told to run, and until that return it has not been.
C14_OneEntryOnceInserted ==
    \A d \in Drivers :
        /\ Entries(d) <= 1
        /\ (d \in NotEnded /\ Registered(d)) => Entries(d) = 1
        /\ (d \in NotEnded /\ ~Registered(d)) => Entries(d) = 0
        /\ (Entries(d) = 1 /\ spc[d] = "done") => ToldToRun(d)
        /\ (Entries(d) = 1 /\ spc[d] # "done") => ~ToldToRun(d)

\* One driver is registered, told to run and running while another has been
\* created and is not yet inserted.
C14_Witness ==
    \E d1, d2 \in Drivers :
        /\ spc[d1] = "done" /\ state[d1] = "Running" /\ Entries(d1) = 1
        /\ ToldToRun(d1)
        /\ state[d2] = "Created" /\ ~Registered(d2) /\ Entries(d2) = 0

\* The step runs the erase of the cleanup hook of driver d.
HookOf(d) == hookRuns'[d] = hookRuns[d] + 1

\* C15: an entry leaves _sessions only in a run of the cleanup hook of the
\* driver it refers to, which has Ended, and that run takes out this one
\* entry and no other; the steps of endAllSessions itself (lock, snapshot,
\* terminate() calls, return) leave _sessions as it is, entry for entry.
C15_OnlyOwnHookErases ==
    [][/\ \A d \in Drivers :
             /\ Entries(d)' < Entries(d) => (HookOf(d) /\ state[d] = "Ended")
             /\ HookOf(d) =>
                   /\ Len(_sessions') = Len(_sessions) - 1
                   /\ \A x \in Drivers : x # d => Entries(x)' = Entries(x)
                   /\ \A x \in Drivers : x # d => hookRuns'[x] = hookRuns[x]
       /\ \A e \in Enders :
             (EnderActs(e) /\ epc[e] # "hookErase") => _sessions' = _sessions]_vars

\* An endAllSessions call has returned and a driver it terminated is still
\* registered, its transition to Ended yet to come, while another driver's
\* hook has taken that driver's entry out.
C15_Witness ==
    \E e \in Enders, d1, d2 \in Drivers :
        /\ epc[e] = "done"
        /\ termCalled[d1] /\ state[d1] # "Ended" /\ Entries(d1) = 1
        /\ hookRuns[d2] = 1 /\ Entries(d2) = 0

\* The drivers a step creates.
Created == {d \in Drivers : state[d] = "None" /\ state'[d] # "None"}

WorkerOnly == {"enter", "loop", "run", "yield", "yielding"}
Counted(d) ==
    wpc[d] \in {"loop", "run", "yield", "yielding", "hookLock", "hookErase", "exit"}

\* C20: with an executor configured (sync false) startSession calls
\* scheduleNext() once, on its return, and there is never a worker thread nor
\* a runNext() call; with none (sync true) it launches one worker, on its
\* return, which runs the loop, and scheduleNext() is never called; either
\* way the choice is made once per call, and the driver was created with the
\* flag sync.
C20_StrategyChosenOnce ==
    /\ [](\A d \in Drivers :
             /\ state[d] # "None" => ssmSync[d] = sync
             /\ ~sync => (wpc[d] \notin WorkerOnly /\ _nWorkers = 0)
             /\ sync => wpc[d] # "sched"
             /\ sync => _nWorkers = Cardinality({x \in Drivers : Counted(x)})
             /\ spc[d] = "done" <=> ToldToRun(d))
    /\ [][\A d \in Drivers :
             /\ (~ToldToRun(d) /\ ToldToRun(d)') =>
                   /\ spc[d] = "go" /\ spc'[d] = "done"
                   /\ wpc'[d] = IF sync THEN "enter" ELSE "sched"
             /\ ToldToRun(d) => (ToldToRun(d)' /\ spc'[d] = "done")
             /\ (wpc[d] # "enter" /\ wpc'[d] = "enter") => ~ToldToRun(d)]_vars

\* Under either strategy a session has been started and is running: with an
\* executor as a scheduled task and no worker, without one in its worker's
\* loop.
C20_Witness ==
    \E d \in Drivers :
        /\ spc[d] = "done" /\ state[d] = "Running"
        /\ \/ ~sync /\ wpc[d] = "sched" /\ _nWorkers = 0
           \/ sync /\ wpc[d] = "run" /\ _nWorkers = 1

(***************************************************************************)
(* Properties of Session objects, continued (SessionSpec).                 *)
(***************************************************************************)
\* What a move from object o to object s is to leave behind.
Transferred(s, o) ==
    /\ ep'[s].id = ep[o].id
    /\ ep'[s].remote = ep[o].remote
    /\ ep'[s].local = ep[o].local
    /\ ep'[s].tl = ep[o].tl
    /\ ep'[o].tl = NullTL

\* C16: after a move construction or a move assignment from o to s, s holds
\* the id, the remote and local address and the transport layer o had, and
\* the transport layer of o is null.
C16_MoveTransfers ==
    [][\A s, o \in Slots :
          (SessionMoveCtor(s, o) \/ SessionMoveAssign(s, o)) => Transferred(s, o)]_vars

\* C17: the destruction of a Session whose _tl is non-null at that moment
\* calls TransportLayer::end once, for that Session; the destruction of one
\* whose _tl is null calls it not at all; and nothing but a destruction
\* calls it.
C17_DiscardNotifiesIffAttached ==
    [][/\ \A s \in Slots :
             Discarded(s) =>
                 IF ep[s].tl # NullTL
                 THEN endCalls' = [endCalls EXCEPT ![ep[s].id] = @ + 1]
                 ELSE endCalls' = endCalls
       /\ endCalls' # endCalls => \E s \in Slots : Discarded(s)]_vars

\* Two objects that took part in no move have been destroyed: one built with
\* a transport layer, with one end() call, one built without, with none.
C17_Witness ==
    \E s, t \in Slots :
        /\ ep[s].st = "gone" /\ ep[t].st = "gone"
        /\ ~movedFrom[s] /\ moveDest[s] = "no"
        /\ ~movedFrom[t] /\ moveDest[t] = "no"
        /\ ctorTl[s] # NullTL /\ endCalls[ctorId[s]] = 1
        /\ ctorId[t] # -1 /\ ctorTl[t] = NullTL /\ endCalls[ctorId[t]] = 0

(***************************************************************************)
(* Properties of the registry's destruction and fatal path (LifeSpec).     *)
(***************************************************************************)
\* C11: once the registry has been destroyed, every driver it was tracking
\* has been terminated, so no driver that was started is in a state other
\* than Ended, and no driver is leaked: a driver whose worker or executor
\* task has finished has been destroyed (and its endpoint with it).
C11_TeardownTerminatesAll ==
    alive = "destroyed" =>
        \A d \in Drivers :
            state[d] # "None" =>
                /\ state[d] = "Ended"
                /\ wpc[d] = "done" => destroyed[d]

\* The startSession call for driver slot d fails its invariant in this step.
FailsFatally(d) == spc[d] = "idle" /\ spc'[d] = "fatal"

\* C18: a startSession call whose session lacks a resolved remote or local
\* address ends the process before anything is done for the connection: the
\* failing step creates no driver, adds no entry to _sessions, installs no
\* hook, launches no worker and schedules nothing, and the call has left
\* none of these behind.
C18_UnresolvedAddressIsFatal ==
    /\ [](\A d \in Drivers :
             spc[d] = "fatal" =>
                 /\ alive = "aborted"
                 /\ state[d] = "None" /\ ssmSync[d] = "unset" /\ refs[d] = 0
                 /\ Entries(d) = 0
                 /\ ~hook[d]
                 /\ wpc[d] = "dead")
    /\ [][\A d \in Drivers :
             FailsFatally(d) =>
                 /\ state' = state /\ refs' = refs /\ ssmSync' = ssmSync
                 /\ _sessions' = _sessions
                 /\ hook' = hook
                 /\ _nWorkers' = _nWorkers
                 /\ \A x \in Drivers : wpc'[x] \notin {"enter", "sched"}]_vars

\* A startSession call has failed fatally while an earlier session was
\* registered and running.
C18_Witness ==
    \E d1, d2 \in Drivers :
        /\ spc[d2] = "fatal"
        /\ state[d1] = "Running" /\ _sessions = <<d1>>

(***************************************************************************)
(* Properties of the registry, continued (Spec).                           *)
(***************************************************************************)
\* C22: every driver that reaches Ended is eventually removed from the
\* registry, whichever thread made it Ended and wherever startSession stood
\* at that moment: when every call has returned and every worker and
\* executor task has finished, no Ended driver is left in _sessions.
C22_EndedLeavesRegistry ==
    Quiescent => \A d \in Drivers : state[d] = "Ended" => d \notin Range(_sessions)

\* Driver d makes a step of its own execution: its worker or its executor
\* task moves.
RunnerActs(d) == wpc'[d] # wpc[d]

\* C23: a driver is told to run (scheduleNext() called, or its worker
\* launched) only by a startSession call that has inserted it and installed
\* its hook; and whenever a driver becomes Ended by a step of its own
\* execution it has its hook and its one registry entry, and the hook is
\* what its thread does next.
C23_ToldToRunAfterHook ==
    /\ [](\A d \in Drivers : ToldToRun(d) => (spc[d] = "done" /\ hook[d]))
    /\ [][\A d \in Drivers :
            /\ (~ToldToRun(d) /\ ToldToRun(d)') =>
                  (spc[d] = "go" /\ hook[d] /\ state[d] # "None")
            /\ (state[d] # "Ended" /\ state'[d] = "Ended" /\ RunnerActs(d)) =>
                  (hook[d] /\ Entries(d) = 1 /\ wpc'[d] = "hookLock")]_vars

\* A driver has Ended by its own execution, no terminate() having been
\* called on it, and its thread is about to run the hook on its entry.
C23_Witness ==
    \E d \in Drivers :
        /\ state[d] = "Ended" /\ ~termCalled[d]
        /\ wpc[d] = "hookLock" /\ hook[d] /\ Entries(d) = 1

\* The worker of driver d is about to call runNext().
AtRunNext(d) == sync /\ wpc[d] = "run"

\* How far the worker of an Ended driver is from its end; a worker not yet
\* launched is farthest.
WorkerRank(pc) ==
    CASE pc \in {"run", "hookLock"} -> 7
      [] pc = "hookErase" -> 6
      [] pc = "yield" -> 5
      [] pc \in {"yielding", "enter"} -> 4
      [] pc = "loop" -> 3
      [] pc = "exit" -> 2
      [] pc = "done" -> 1
      [] OTHER -> 8

\* C24 as stated: the worker calls no runNext() on a driver that is Ended.
C24_NoRunNextOnceEnded ==
    \A d \in Drivers : AtRunNext(d) => state[d] # "Ended"

\* C24 as amended: the worker leaves its loop only when it has observed
\* Ended and goes to runNext() only when it has observed another state; an
\* Ended driver stays Ended; on a driver that terminate() has been called on
\* the worker's next runNext() returns with the driver Ended; and once the
\* driver is Ended every step of its worker takes it nearer to its exit, past
\* at most one runNext(), the one whose test came before the transition.
C24_WorkerLoopExits ==
    /\ [](\A d \in Drivers :
             (sync /\ wpc[d] \in {"exit", "done"}) => state[d] = "Ended")
    /\ [][\A d \in Drivers :
            /\ state[d] = "Ended" => state'[d] = "Ended"
            /\ sync =>
                /\ (wpc[d] = "loop" /\ RunnerActs(d)) =>
                      wpc'[d] = IF state[d] = "Ended" THEN "exit" ELSE "run"
                /\ (~AtRunNext(d) /\ AtRunNext(d)') =>
                      (wpc[d] = "loop" /\ state[d] # "Ended")
                /\ (AtRunNext(d) /\ RunnerActs(d) /\ termCalled[d]) =>
                      state'[d] = "Ended"
                /\ (state[d] = "Ended" /\ RunnerActs(d)) =>
                      WorkerRank(wpc'[d]) < WorkerRank(wpc[d])]_vars

\* A worker has left its loop and finished after an endAllSessions call
\* terminated its driver.
C24_Witness ==
    \E d \in Drivers :
        sync /\ wpc[d] = "done" /\ termCalled[d] /\ state[d] = "Ended"

\* The worker thread of driver d has run its addAndFetch(1) and its guard
\* has not run yet.
InBody(d) == sync /\ Counted(d)

\* The worker of d enters its body, or leaves it, in this step.
Enters(d) == sync /\ wpc[d] = "enter" /\ wpc'[d] # "enter"
Leaves(d) == sync /\ wpc[d] = "exit" /\ wpc'[d] # "exit"

\* C25: _nWorkers is the number of worker threads inside their body, never
\* negative, and 0 when there is none; it moves only by the +1 of the one
\* worker that enters or the -1 of the one that leaves, every entry and every
\* exit moves it, and a worker enters once and leaves once, the exit being
\* taken also from a loop whose first test finds the driver Ended.
C25_WorkerCount ==
    /\ [](/\ _nWorkers = Cardinality({d \in Drivers : InBody(d)})
          /\ _nWorkers >= 0
          /\ (\A d \in Drivers : wpc[d] \in {"none", "enter", "done"}) =>
                _nWorkers = 0)
    /\ [][/\ \A d \in Drivers :
                /\ Enters(d) => (_nWorkers' = _nWorkers + 1 /\ wpc'[d] = "loop")
                /\ Leaves(d) => (_nWorkers' = _nWorkers - 1 /\ wpc'[d] = "done"
                                 /\ _nWorkers >= 1)
                /\ (wpc'[d] = "enter" /\ wpc[d] # "enter") => wpc[d] = "none"
                /\ (wpc'[d] = "exit" /\ wpc[d] # "exit" /\ sync) => wpc[d] = "loop"
                /\ wpc[d] = "done" => wpc'[d] = "done"
          /\ _nWorkers' # _nWorkers =>
                Cardinality({d \in Drivers : Enters(d) \/ Leaves(d)}) = 1]_vars

\* One worker has left its body and another is about to, its driver Ended:
\* the counter has come down from 2 to 1.
C25_Witness ==
    \E d1, d2 \in Drivers :
        /\ sync /\ wpc[d1] = "done" /\ wpc[d2] = "exit"
        /\ _nWorkers = 1

\* Everything but the positions of the workers.
allButWpc ==
    <<sessionIdCounter, sessVars, sync, spc, sid, tags, state, hook, termReq,
      refs, destroyed, _sessions, _sessionsMutex, _nWorkers, epc, filter,
      connsToEnd, idx, termCalled, hookRuns, uaf, badErase, ssmSync, alive>>

\* C26: after each runNext(), and after the hook if runNext() ran it, the
\* worker comes to the test of the counter; from there it enters yield()
\* exactly when _nWorkers is strictly greater than the number of cores, and
\* nowhere else; the test and the yield change nothing but the position of
\* the worker, and the worker comes out of yield() at the loop test, where it
\* stands when it does not yield: registry and driver states do not tell a
\* run that yields from one that does not.
C26_YieldIsOnlyAHint ==
    [][\A d \in Drivers :
          /\ (AtRunNext(d) /\ RunnerActs(d)) => wpc'[d] \in {"yield", "hookLock"}
          /\ (sync /\ wpc[d] = "hookErase" /\ RunnerActs(d)) => wpc'[d] = "yield"
          /\ (wpc[d] = "yield" /\ RunnerActs(d)) =>
                /\ wpc'[d] = "yielding" <=> _nWorkers > NumCores
                /\ wpc'[d] = "loop" <=> _nWorkers <= NumCores
          /\ (wpc'[d] = "yielding" /\ wpc[d] # "yielding") => wpc[d] = "yield"
          /\ (wpc[d] = "yielding" /\ RunnerActs(d)) => wpc'[d] = "loop"
          /\ (wpc[d] \in {"yield", "yielding"} /\ RunnerActs(d)) =>
                /\ UNCHANGED allButWpc
                /\ \A x \in Drivers \ {d} : wpc'[x] = wpc[x]]_vars

\* Two workers are in their body, more than there are cores: one is inside
\* yield() while the other, its driver running, is about to call runNext().
C26_Witness ==
    \E d1, d2 \in Drivers :
        /\ wpc[d1] = "yielding" /\ wpc[d2] = "run"
        /\ _nWorkers = 2 /\ NumCores = 1
        /\ state[d1] = "Running" /\ state[d2] = "Running"

(***************************************************************************)
(* Properties of Session objects, continued further (SessionSpec).         *)
(***************************************************************************)
\* The objects the 3-argument constructor has built so far.
Constructed == {s \in Slots : ctorId[s] # -1}

\* The 3-argument constructor builds object s in this step.
Constructs(s) == ctorId[s] = -1 /\ ctorId'[s] # -1

\* Object s is the destination of a move assignment from o in this step.
AssignedFrom(s, o) ==
    /\ s # o
    /\ ep[s].st = "live" /\ ep[o].st = "live"
    /\ movedFrom'[o] /\ moveDest'[s] # "no"
    /\ ep'[s].id = ep[o].id

\* C27: the ids the constructor has handed out are 1 .. k for the k
\* constructions made, k being the value of the counter, and they grow with
\* the order of construction; the k-th construction gets id k; and the id of
\* an object changes only when the object is the destination of a move
\* assignment, to the id of the source, which keeps its own.
C27_IdsCountConstructions ==
    /\ [](/\ {ctorId[s] : s \in Constructed} = 1 .. sessionIdCounter
          /\ Cardinality(Constructed) = sessionIdCounter
          /\ \A s, t \in Constructed : s < t => ctorId[s] < ctorId[t])
    /\ [][\A s \in Slots :
            /\ Constructs(s) =>
                  /\ ep'[s].id = Cardinality(Constructed) + 1
                  /\ ep'[s].id = ctorId'[s]
                  /\ sessionIdCounter' = sessionIdCounter + 1
            /\ (ep[s].st = "live" /\ ep'[s].st = "live" /\ ep'[s].id # ep[s].id) =>
                  \E o \in Slots : AssignedFrom(s, o) /\ ep'[o].id = ep[o].id
            /\ (~Constructs(s) /\ ctorId[s] # -1) => ctorId'[s] = ctorId[s]]_vars

\* The third construction has drawn id 3, and the first object constructed
\* now carries the id of the second, which a move assignment gave it.
C27_Witness ==
    \E s, o, u \in Slots :
        /\ ctorId[s] = 1 /\ ctorId[o] = 2 /\ ctorId[u] = 3
        /\ ep[s].st = "live" /\ ep[s].id = 2 /\ moveDest[s] # "no"
        /\ ep[o].st = "live" /\ ep[o].id = 2

(***************************************************************************)
(* Properties of the registry, continued further (Spec).                   *)
(***************************************************************************)
\* Call e takes its snapshot in this step.
Snapshots(e) == epc[e] = "snap" /\ epc'[e] = "term"

\* The tag masks of four bits.
MaskValues == 0 .. 15

\* C28: a snapshot taken with tagFilter 0 is the whole registry; a
\* registered driver whose tags are 0 is in the snapshot whatever the filter
\* is, that of the call or any other mask of four bits put in its place; a
\* registered driver is left out only if some bit is set both in its tags
\* and in the filter; and when the call returns terminate() has been called
\* on every driver of the snapshot.
C28_EmptyMasksSkipNothing ==
    [][\A e \in Enders :
          /\ Snapshots(e) =>
                /\ filter[e] = 0 => connsToEnd'[e] = _sessions
                /\ \A f \in MaskValues, d \in Range(_sessions) :
                      /\ tags[d] = 0 => d \in Range(Snapshot(_sessions, f))
                      /\ d \notin Range(Snapshot(_sessions, f)) =>
                            TagBits(tags[d]) \cap TagBits(f) # {}
                /\ \A d \in Range(_sessions) :
                      /\ tags[d] = 0 => d \in Range(connsToEnd'[e])
                      /\ d \notin Range(connsToEnd'[e]) =>
                            \E i \in 0 .. 3 :
                                i \in TagBits(tags[d]) /\ i \in TagBits(filter[e])
          /\ (epc[e] = "term" /\ epc'[e] = "done") =>
                \A d \in Range(connsToEnd[e]) :
                    termCalled[d] /\ (state[d] = "Ended" \/ termReq[d])]_vars

\* A call with filter 0 has called terminate() on a driver with tags 3 while
\* a call with filter 2 has called it on a driver without tags.
C28_Witness ==
    \E e1, e2 \in Enders, d1, d2 \in Drivers :
        /\ filter[e1] = 0 /\ tags[d1] = 3
        /\ filter[e2] = 2 /\ tags[d2] = 0
        /\ TerminateReturned(e1, d1) /\ TerminateReturned(e2, d2)

(***************************************************************************)
(* Properties of UnsetNode (UnsetSpec).                                    *)
(***************************************************************************)
\* apply has returned or has left with an exception.
ApplyOver == upc \in {"returned", "threw"}

\* p is a prefix of q, or equal to it.
IsPrefix(p, q) == Len(p) <= Len(q) /\ \A i \in 1 .. Len(p) : p[i] = q[i]
PrefixRelated(p, q) == IsPrefix(p, q) \/ IsPrefix(q, p)

\* The path the update names: the parts found and the parts missing.
UnsetPath == pathTaken \o pathToCreate

\* storageValid has rejected a sibling of the element.
SiblingRejected ==
    validateForStorage /\ HasSibling(docBefore, pathTaken) /\ ~siblingsValid

\* C29 as stated: apply raises ImmutableField exactly when the path being
\* unset and some immutable path are in a prefix relation, and when it does
\* the log has no unset entry and the element is as it was.
C29_RaisesAndLeavesUntouched ==
    ApplyOver =>
        /\ thrown = "ImmutableField" <=>
              \E q \in immutablePaths : PrefixRelated(UnsetPath, q)
        /\ thrown = "ImmutableField" => (unsets = <<>> /\ doc = docBefore)

\* C29 as amended: apply raises ImmutableField exactly when the path exists
\* (nothing is left to create), the path and some immutable path are in a
\* prefix relation, and storage validation has not rejected a sibling of the
\* element first; when it does, the log has no unset entry, and the element
\* has already been taken out of its parent or, in an array, set to null.
C29_RaisesAfterUnsetting ==
    ApplyOver =>
        /\ thrown = "ImmutableField" <=>
              /\ pathToCreate = <<>>
              /\ \E q \in immutablePaths : PrefixRelated(pathTaken, q)
              /\ ~SiblingRejected
        /\ thrown = "ImmutableField" =>
              /\ upc = "threw"
              /\ unsets = <<>>
              /\ KindAt(docBefore, pathTaken) \notin {"absent", "null"}
              /\ KindAt(doc, pathTaken) =
                    IF ParentIsArray(docBefore, pathTaken) THEN "null" ELSE "absent"

\* apply has left with ImmutableField on the path a.b, a being immutable and
\* a log builder present: a.b is gone from the document, the log is empty.
C29_Witness ==
    /\ upc = "threw" /\ thrown = "ImmutableField"
    /\ pathTaken = <<"a", "b">> /\ <<"a">> \in immutablePaths
    /\ logBuilder = "present" /\ unsets = <<>>
    /\ KindAt(docBefore, pathTaken) = "val" /\ KindAt(doc, pathTaken) = "absent"

\* The paths of one or two parts that do not pass through p.
PathsBeside(p) ==
    {q \in {<<x>> : x \in Parts} \cup {<<x, y>> : x, y \in Parts} : ~IsPrefix(p, q)}

\* C30: on a path that does not exist apply sets noop, clears
\* indexesAffected, leaves the document as it was, logs nothing and returns;
\* on an element of an array it sets the element to null, the array keeping
\* its length; any other element it takes out of its parent; and no element
\* beside the path is touched.
C30_UnsetsOrDoesNothing ==
    ApplyOver =>
        IF pathToCreate # <<>>
        THEN /\ noop /\ ~indexesAffected
             /\ doc = docBefore /\ unsets = <<>>
             /\ upc = "returned" /\ thrown = "none"
        ELSE /\ ~noop
             /\ KindAt(docBefore, pathTaken) # "absent"
             /\ \A q \in PathsBeside(pathTaken) : KindAt(doc, q) = KindAt(docBefore, q)
             /\ IF docBefore[pathTaken[1]].k = "arr" /\ Len(pathTaken) = 2
                THEN /\ KindAt(doc, pathTaken) = "null"
                     /\ doc[pathTaken[1]].k = "arr"
                     /\ Len(doc[pathTaken[1]].e) = Len(docBefore[pathTaken[1]].e)
                ELSE /\ KindAt(doc, pathTaken) = "absent"
                     /\ \A q \in {<<x, y>> : x, y \in Parts} :
                           IsPrefix(pathTaken, q) => KindAt(doc, q) = "absent"

\* apply has returned from the first element of an array of two, which is
\* null now, the array still two long and the unset logged.
C30_Witness ==
    /\ upc = "returned" /\ pathTaken = <<"a", "0">> /\ pathToCreate = <<>>
    /\ Len(docBefore["a"].e) = 2 /\ doc["a"].e = <<"null", "val">>
    /\ unsets = <<pathTaken>>


(***************************************************************************)
(* Properties of JSONSchemaParser (ParseSpec)                              *)
(***************************************************************************)
SchemaKeywords ==
    {kSchemaTypeKeyword, kSchemaPropertiesKeyword, kSchemaMaximumKeyword}

\* s has a keyword that is none of the three, or one keyword twice.
BadKeywords(s) ==
    \/ \E i \in 1 .. Len(s) : s[i].n \notin SchemaKeywords
    \/ \E i, j \in 1 .. Len(s) : i < j /\ s[i].n = s[j].n

\* The schema objects nested directly in s: the properties that are objects,
\* of the properties elements that are objects.
SchemasIn(s) ==
    UNION {{s[i].v.o[j].v.o :
               j \in {k \in 1 .. Len(s[i].v.o) : s[i].v.o[k].v.t = "Object"}} :
              i \in {k \in 1 .. Len(s) :
                        /\ s[k].n = kSchemaPropertiesKeyword
                        /\ s[k].v.t = "Object"}}

RECURSIVE HasBadKeyword(_)
\* s, or a schema object nested in it at any depth, has BadKeywords.
HasBadKeyword(s) ==
    BadKeywords(s) \/ \E n \in SchemasIn(s) : HasBadKeyword(n)

RECURSIVE OnlyKeywordsWrong(_)
\* Nothing but keywords is wrong in s and the schemas nested in it: every
\* type is a known alias, every maximum a number, every properties an object
\* of objects.
OnlyKeywordsWrong(s) ==
    /\ \A i \in 1 .. Len(s) :
          /\ s[i].n = kSchemaTypeKeyword =>
                s[i].v.t = "String" /\ s[i].v.s \in TypeAliases
          /\ s[i].n = kSchemaMaximumKeyword => s[i].v.t = "Number"
          /\ s[i].n = kSchemaPropertiesKeyword =>
                /\ s[i].v.t = "Object"
                /\ \A j \in 1 .. Len(s[i].v.o) : s[i].v.o[j].v.t = "Object"
    /\ \A n \in SchemasIn(s) : OnlyKeywordsWrong(n)

\* C31 as stated: parse returns FailedToParse and no match expression for
\* every schema in which the top-level object or an object nested under
\* properties has an unknown or a repeated keyword.
C31_BadKeywordFailsToParse ==
    jpc = "returned" /\ HasBadKeyword(jsonSchema) =>
        parsed.code = "FailedToParse" /\ parsed.expr = "none"

\* The properties of the top-level schema that parse reaches, when the
\* keywords and the type of the top-level schema raise nothing.
ReachedProperties ==
    LET filled == FillKeywordMap(jsonSchema, 1, [k \in SchemaKeywords |-> EooElement])
        propertiesElt == filled.map[kSchemaPropertiesKeyword]
    IN  IF /\ isOK(filled.st)
           /\ isOK(parseType("", filled.map[kSchemaTypeKeyword]))
           /\ propertiesElt.v.t = "Object"
        THEN propertiesElt.v.o
        ELSE <<>>

\* C31: for a schema in which some schema object has an unknown or a
\* repeated keyword, parse returns an error and no match expression.  The
\* error is FailedToParse when the object is the top-level one, and when
\* nothing but keywords is wrong in the schema; else it is FailedToParse or
\* an error met before the keyword: TypeMismatch, or that of the type alias.
\* The error of the first nested schema that raises one is returned as it
\* is.
C31_BadKeywordFails ==
    jpc = "returned" =>
        /\ HasBadKeyword(jsonSchema) =>
              /\ ~isOK(parsed)
              /\ parsed.expr = "none"
              /\ parsed.code \in {"FailedToParse", "TypeMismatch", "BadValue"}
        /\ BadKeywords(jsonSchema) =>
              /\ parsed.code = "FailedToParse"
              /\ \/ parsed.name \notin SchemaKeywords
                 \/ Cardinality({i \in 1 .. Len(jsonSchema) :
                                    jsonSchema[i].n = parsed.name}) > 1
        /\ HasBadKeyword(jsonSchema) /\ OnlyKeywordsWrong(jsonSchema) =>
              parsed.code = "FailedToParse"
        /\ \A i \in 1 .. Len(ReachedProperties) :
              LET Nested(j) == _parse(ReachedProperties[j].n, ReachedProperties[j].v.o)
              IN  (/\ \A j \in 1 .. i : ReachedProperties[j].v.t = "Object"
                   /\ \A j \in 1 .. i - 1 : isOK(Nested(j))
                   /\ ~isOK(Nested(i)))
                  => parsed = Nested(i)

\* A repeated keyword two levels below the top-level schema has made parse
\* return FailedToParse, naming it.
C31_Witness ==
    /\ jpc = "returned"
    /\ ~BadKeywords(jsonSchema)
    /\ \A n \in SchemasIn(jsonSchema) : ~BadKeywords(n)
    /\ \E n \in SchemasIn(jsonSchema) : \E k \in SchemasIn(n) :
          \E i, j \in 1 .. Len(k) : i < j /\ k[i].n = k[j].n /\ k[i].n = parsed.name
    /\ parsed.code = "FailedToParse"
    /\ parsed.reason = "Duplicate keyword"
    /\ parsed.expr = "none"

====
